---------------------------- MODULE Spec2Model ----------------------------
(***************************************************************************)
(* A model of the security-lab repository's analysis and scoring code:   *)
(*   - PacketVision parse_pcap_to_flows   (the flow aggregator),         *)
(*   - PacketVision align_features_for_inference (the alignment layer),  *)
(*   - PacketVision rules.py and CloudSentinel _score_findings           *)
(*     (the two rule engines),                                           *)
(*   - PacketVision build_features        (the feature builder),         *)
(*   - PacketVision analyze_pcap          (the orchestrator, as calls    *)
(*     running side by side, and behind the /analyze-pcap endpoint),     *)
(*   - PacketVision predict_flows and the RedRiver and SentinelFlow      *)
(*     /predict endpoints                 (the scoring steps),           *)
(*   - RedRiver encode_labels, save_artifacts and the API's decoder,     *)
(*   - ZeroTrace extract_features, load_model and the /predict endpoint. *)
(* Each component has its own specification over the shared variables:   *)
(* SpecAgg and SpecPerm, SpecAlign, SpecRules, SpecMissing and           *)
(* SpecScenario, SpecScore, SpecFeat, SpecPipe, SpecScoring, SpecRedRiver, *)
(* SpecEndpoint, SpecExtract, SpecCache, SpecSample.  Timestamps and     *)
(* durations are integer ticks, a quotient is kept as an exact fraction  *)
(* and a probability is counted in units of 1 / ProbUnit.                *)
(***************************************************************************)
EXTENDS Integers, Sequences, FiniteSets, TLC

VARIABLES
    \* ---- parse_pcap_to_flows ----
    packets,        \* the list rdpcap() returned
    idx,            \* position of the for-loop over packets (1-based)
    flow_keys,      \* insertion order of the packet_counts dict
    packet_counts,  \* Dict[FlowKey, int]
    total_bytes,    \* Dict[FlowKey, int]
    first_ts,       \* Dict[FlowKey, float]
    last_ts,        \* Dict[FlowKey, float]
    flows_df,       \* the returned DataFrame: [columns, rows]
    pc,             \* "idle" | "loop" | "done"
    \* ---- align_features_for_inference ----
    X_new,          \* the feature table passed in: [columns, data]
    feature_columns,\* the training-time schema
    X_out,          \* the returned table
    align_raised,   \* TRUE when the call raised (KeyError)
    apc,            \* "idle" | "call" | "done"
    \* ---- rule engines ----
    flows,          \* the flow table handed to analyze_flows_with_rules
    n_appended,     \* rows appended to the table after it was loaded
    policy,         \* the IAM policy handed to analyze_policy
    report,         \* the dict the engine returned
    rpc,            \* "idle" | "loaded" | "analyzed" | "policy_done"
    \* ---- score -> level mappings, called on two scores ----
    score_in,       \* the two scores the mapping was applied to
    level_out,      \* the two levels it returned
    spc,            \* "idle" | "pv_done" | "cs_done"
    \* ---- build_features ----
    feat_orig,      \* the flow table as it was handed to the first call
    feat_in,        \* the caller's flow table object, as it is now
    feat_prev,      \* what the previous call returned
    feat_out,       \* what the last call returned
    feat_calls,     \* number of calls made on feat_in
    \* ---- analyze_pcap: invocations running side by side ----
    calls,          \* invocation -> its local variables and position
    \* ---- the scoring steps (predict_flows and the /predict endpoints) ----
    model,          \* the classifier handed to the scoring step
    X_aligned,      \* the table it is asked to score: [columns, data]
    proba,          \* what model.predict_proba returned, a row per table row
    y_pred,         \* what model.predict returned
    n_predict,      \* calls made to model.predict
    n_predict_proba,\* calls made to model.predict_proba
    results,        \* the verdicts the scoring step returned
    ml_raised,      \* TRUE when the classifier raised and the step let it go
    mpc,            \* "idle" | "pv_done" | "rr_done" | "sf_done"
    \* ---- the /analyze-pcap endpoint ----
    upload,         \* the uploaded capture: [readable, packets]
    artifacts,      \* the model files on disk: [available, model, feature_columns]
    save_ok,        \* FALSE when writing the upload to disk raised
    response,       \* what the endpoint answered: [status, ...]
    epc,            \* "idle" | "responded"
    \* ---- ZeroTrace ----
    snapshot_df,    \* the snapshot handed to extract_features
    extract_result, \* what extract_features returned, or that it raised
    _MODEL,         \* pipeline.py's module-level cache: NoObject or an object
    model_file,     \* model.joblib: "missing" | "valid" | "corrupt"
    disk_reads,     \* how many times joblib.load has read the file
    lpc,            \* per caller of load_model: "idle" | "loading"
    load_calls,     \* per caller: the calls of load_model it has started
    obtained,       \* the objects load_model has returned so far
    request_sample, \* the body of a /predict request, as sample.dict()
    X_frame,        \* the one-row frame build_feature_frame made of it
    filled_cols,    \* the columns build_feature_frame added with 0.0
    prediction,     \* what predict_sample returned, or that it raised
    zpc,            \* "idle" | "extracted" | "predicted"
    \* ---- RedRiver label encoding ----
    label_column,   \* df[LABEL_COLUMN] of the training table
    label_to_int,   \* {label -> int} returned by encode_labels
    int_to_label,   \* {int -> label} returned by encode_labels
    label_encoded,  \* df["label_encoded"]
    metadata_file,  \* the JSON at FEATURE_COLUMNS_PATH
    LABEL_DECODER,  \* the API's module-level decoder
    rrpc            \* "idle" | "encoded" | "saved" | "loaded"

aggVars   == <<packets, idx, flow_keys, packet_counts, total_bytes,
               first_ts, last_ts, flows_df, pc>>
alignVars == <<X_new, feature_columns, X_out, align_raised, apc>>
ruleVars  == <<flows, n_appended, policy, report, rpc>>
scoreVars == <<score_in, level_out, spc>>
featVars  == <<feat_orig, feat_in, feat_prev, feat_out, feat_calls>>
pipeVars  == <<calls>>
mlVars    == <<model, X_aligned, proba, y_pred, n_predict, n_predict_proba,
               results, ml_raised, mpc>>
epVars    == <<upload, artifacts, save_ok, response, epc>>
extractVars == <<snapshot_df, extract_result>>
cacheVars == <<_MODEL, model_file, disk_reads, lpc, load_calls, obtained>>
sampleVars == <<request_sample, X_frame, filled_cols, prediction>>
ztVars    == <<extractVars, cacheVars, sampleVars, zpc>>
rrVars    == <<label_column, label_to_int, int_to_label, label_encoded,
               metadata_file, LABEL_DECODER, rrpc>>
vars      == <<aggVars, alignVars, ruleVars, scoreVars, featVars, pipeVars,
               mlVars, epVars, ztVars, rrVars>>

-----------------------------------------------------------------------------
(* Bounds of the model *)

MaxPackets == 3
MaxTime == 2

-----------------------------------------------------------------------------
(* Generic helpers *)

EmptyDict == [k \in {} |-> 0]

DictSet(d, k, v) == [x \in (DOMAIN d) \cup {k} |-> IF x = k THEN v ELSE d[x]]

RECURSIVE SeqsUpTo(_, _)
SeqsUpTo(S, n) ==
    IF n = 0 THEN {<<>>}
    ELSE LET shorter == SeqsUpTo(S, n - 1)
         IN  shorter \cup {Append(s, x) : s \in shorter, x \in S}

RECURSIVE GCD(_, _)
GCD(a, b) == IF b = 0 THEN a ELSE GCD(b, a % b)

Max2(a, b) == IF a >= b THEN a ELSE b

\* Python's true division of two non-negative ints, kept as the exact
\* fraction in lowest terms.
TrueDiv(a, b) ==
    LET g == GCD(a, b)
    IN  [num |-> a \div g, den |-> b \div g]

RatZero == [num |-> 0, den |-> 1]

-----------------------------------------------------------------------------
(* parse_pcap_to_flows *)

\* The decoded packets the capture may hold: TCP and UDP over IPv4, plus an
\* ARP frame (no IP layer), an ICMP packet (IP, no TCP/UDP) and a TCP segment
\* over IPv6 (TCP, but no IP layer).
PacketLens == {60, 1499}
Timestamps == 1..MaxTime

\* three conversations: two that differ in the protocol alone and two that
\* differ in the destination port alone
L4Packets ==
    { p \in [ip : {TRUE}, l4 : {"TCP", "UDP"}, src : {"10.0.0.1"},
             dst : {"10.0.0.2"}, sport : {40000}, dport : {80, 443},
             len : PacketLens, time : Timestamps] :
        /\ p.l4 = "UDP" => p.dport = 80
        /\ p.dport = 443 => p.len = 60 }

OtherPackets ==
    { [ip |-> FALSE, l4 |-> "NONE", src |-> "", dst |-> "", sport |-> 0,
       dport |-> 0, len |-> 60, time |-> 1],
      [ip |-> TRUE, l4 |-> "NONE", src |-> "10.0.0.1", dst |-> "10.0.0.2",
       sport |-> 0, dport |-> 0, len |-> 60, time |-> 1],
      [ip |-> FALSE, l4 |-> "TCP", src |-> "", dst |-> "", sport |-> 40000,
       dport |-> 80, len |-> 60, time |-> 1] }

PacketSet == L4Packets \cup OtherPackets

FlowColumns ==
    <<"src_ip", "dst_ip", "src_port", "dst_port", "protocol", "packet_count",
      "total_bytes", "start_time", "end_time", "duration", "avg_packet_size">>

\* `IP not in pkt` (line 73)
HasIP(pkt) == pkt.ip

\* (mutant) the else branch tags the packet "OTHER" in place of `continue`
ProtocolOf_Other(pkt) ==
    IF pkt.l4 = "TCP" THEN "TCP"
    ELSE IF pkt.l4 = "UDP" THEN "UDP"
    ELSE "OTHER"

\* `TCP in pkt` / `elif UDP in pkt` (lines 79-87): the protocol tag, or
\* "NONE" for the else branch that skips the packet.
ProtocolOf(pkt) ==
    IF pkt.l4 = "TCP" THEN "TCP"
    ELSE IF pkt.l4 = "UDP" THEN "UDP"
    ELSE "NONE"

\* key = (src_ip, dst_ip, src_port, dst_port, protocol)
FlowKeyOf(pkt) == <<pkt.src, pkt.dst, pkt.sport, pkt.dport, ProtocolOf(pkt)>>

\* (mutant) packet_counts[key] = 1
CountInc_Assign(d, key) == DictSet(d, key, 1)

\* (mutant) packet_counts.setdefault(key, 0) for a new key, += 1 after
CountInc_FromZero(d, key) ==
    DictSet(d, key, IF key \in DOMAIN d THEN d[key] + 1 ELSE 0)

\* packet_counts[key] += 1 on a defaultdict(int)
CountInc(d, key) ==
    DictSet(d, key, (IF key \in DOMAIN d THEN d[key] ELSE 0) + 1)

\* (mutant) total_bytes[key] = size_bytes
BytesAdd_Assign(d, key, size) == DictSet(d, key, size)

\* total_bytes[key] += size_bytes on a defaultdict(int)
BytesAdd(d, key, size) ==
    DictSet(d, key, (IF key \in DOMAIN d THEN d[key] ELSE 0) + size)

\* if key not in first_ts: first_ts[key] = ts
FirstTsUpdate(d, key, ts) ==
    IF key \in DOMAIN d THEN d ELSE DictSet(d, key, ts)

\* (mutant) if key not in last_ts: last_ts[key] = ts
LastTsUpdate_Once(d, key, ts) ==
    IF key \in DOMAIN d THEN d ELSE DictSet(d, key, ts)

\* (mutant) last_ts[key] = max(last_ts.get(key, ts), ts)
LastTsUpdate_Max(d, key, ts) ==
    DictSet(d, key, IF key \in DOMAIN d THEN Max2(d[key], ts) ELSE ts)

\* last_ts[key] = ts
LastTsUpdate(d, key, ts) == DictSet(d, key, ts)

\* dict insertion order: a key is appended the first time it is stored
KeyOrderUpdate(order, d, key) ==
    IF key \in DOMAIN d THEN order ELSE Append(order, key)

\* (mutant) duration = end - start
Duration_NoClamp(start, end) == end - start

\* duration = max(end - start, 0.0)
Duration(start, end) == Max2(end - start, 0)

\* avg_pkt_size = bytes_total / count if count > 0 else 0.0
AvgPacketSize(bytes_total, count) ==
    IF count > 0 THEN TrueDiv(bytes_total, count) ELSE RatZero

\* the dict appended to rows for one item of packet_counts.items()
FlowRow(key, counts, bytes, first, last) ==
    [src_ip |-> key[1], dst_ip |-> key[2], src_port |-> key[3],
     dst_port |-> key[4], protocol |-> key[5],
     packet_count |-> counts[key],
     total_bytes |-> bytes[key],
     start_time |-> first[key],
     end_time |-> last[key],
     duration |-> Duration(first[key], last[key]),
     avg_packet_size |-> AvgPacketSize(bytes[key], counts[key])]

\* (mutant) pd.DataFrame(rows) also when rows is empty: a frame of no columns
BuildFrame_NoEmptyBranch(order, counts, bytes, first, last) ==
    [columns |-> IF order = <<>> THEN <<>> ELSE FlowColumns,
     rows |-> [i \in 1..Len(order) |->
                  FlowRow(order[i], counts, bytes, first, last)]]

\* pd.DataFrame(rows), or the empty frame with the expected columns
BuildFrame(order, counts, bytes, first, last) ==
    [columns |-> FlowColumns,
     rows |-> [i \in 1..Len(order) |->
                  FlowRow(order[i], counts, bytes, first, last)]]

NoFrame == [columns |-> <<>>, rows |-> <<>>]

InitAggVars ==
    /\ packets \in SeqsUpTo(PacketSet, MaxPackets)
    /\ idx = 1
    /\ flow_keys = <<>>
    /\ packet_counts = EmptyDict
    /\ total_bytes = EmptyDict
    /\ first_ts = EmptyDict
    /\ last_ts = EmptyDict
    /\ flows_df = NoFrame
    /\ pc = "loop"

MaxPermPackets == 4

\* captures for the runs that are compared with their rearrangements: two
\* packets of one flow that differ in length and time, a packet of a flow
\* that differs from it in the protocol alone, and the two skipped kinds
PermPackets ==
    { p \in PacketSet :
        \/ ~p.ip /\ p.l4 = "NONE"
        \/ p.ip /\ p.l4 = "NONE"
        \/ p.l4 = "TCP" /\ p.ip /\ p.dport = 80 /\ p.len = 60 /\ p.time = 1
        \/ p.l4 = "TCP" /\ p.ip /\ p.dport = 80 /\ p.len = 1499 /\ p.time = 2
        \/ p.l4 = "UDP" /\ p.len = 60 /\ p.time = 1 }

InitPermVars ==
    /\ packets \in SeqsUpTo(PermPackets, MaxPermPackets)
    /\ idx = 1
    /\ flow_keys = <<>>
    /\ packet_counts = EmptyDict
    /\ total_bytes = EmptyDict
    /\ first_ts = EmptyDict
    /\ last_ts = EmptyDict
    /\ flows_df = NoFrame
    /\ pc = "loop"

IdleAggVars ==
    /\ packets = <<>>
    /\ idx = 1
    /\ flow_keys = <<>>
    /\ packet_counts = EmptyDict
    /\ total_bytes = EmptyDict
    /\ first_ts = EmptyDict
    /\ last_ts = EmptyDict
    /\ flows_df = NoFrame
    /\ pc = "idle"

InLoop == pc = "loop" /\ idx <= Len(packets)

\* if IP not in pkt: continue
SkipNoIP ==
    /\ InLoop
    /\ ~HasIP(packets[idx])
    /\ idx' = idx + 1
    /\ UNCHANGED <<packets, flow_keys, packet_counts, total_bytes, first_ts,
                   last_ts, flows_df, pc>>
    /\ UNCHANGED <<alignVars, ruleVars>>
    /\ UNCHANGED <<scoreVars, featVars, pipeVars>>
    /\ UNCHANGED <<mlVars, epVars, ztVars, rrVars>>

\* else: continue   (IP packet that is neither TCP nor UDP)
SkipNoL4 ==
    /\ InLoop
    /\ HasIP(packets[idx])
    /\ ProtocolOf(packets[idx]) = "NONE"
    /\ idx' = idx + 1
    /\ UNCHANGED <<packets, flow_keys, packet_counts, total_bytes, first_ts,
                   last_ts, flows_df, pc>>
    /\ UNCHANGED <<alignVars, ruleVars>>
    /\ UNCHANGED <<scoreVars, featVars, pipeVars>>
    /\ UNCHANGED <<mlVars, epVars, ztVars, rrVars>>

\* the rest of the loop body, lines 89-107
Aggregate ==
    /\ InLoop
    /\ HasIP(packets[idx])
    /\ ProtocolOf(packets[idx]) # "NONE"
    /\ LET pkt == packets[idx]
           key == FlowKeyOf(pkt)
       IN  /\ flow_keys' = KeyOrderUpdate(flow_keys, packet_counts, key)
           /\ packet_counts' = CountInc(packet_counts, key)
           /\ total_bytes' = BytesAdd(total_bytes, key, pkt.len)
           /\ first_ts' = FirstTsUpdate(first_ts, key, pkt.time)
           /\ last_ts' = LastTsUpdate(last_ts, key, pkt.time)
    /\ idx' = idx + 1
    /\ UNCHANGED <<packets, flows_df, pc>>
    /\ UNCHANGED <<alignVars, ruleVars>>
    /\ UNCHANGED <<scoreVars, featVars, pipeVars>>
    /\ UNCHANGED <<mlVars, epVars, ztVars, rrVars>>

\* lines 109-152: build the rows and return the DataFrame
BuildRows ==
    /\ pc = "loop"
    /\ idx > Len(packets)
    /\ flows_df' = BuildFrame(flow_keys, packet_counts, total_bytes,
                              first_ts, last_ts)
    /\ pc' = "done"
    /\ UNCHANGED <<packets, idx, flow_keys, packet_counts, total_bytes,
                   first_ts, last_ts>>
    /\ UNCHANGED <<alignVars, ruleVars>>
    /\ UNCHANGED <<scoreVars, featVars, pipeVars>>
    /\ UNCHANGED <<mlVars, epVars, ztVars, rrVars>>

NextAgg ==
    \/ SkipNoIP
    \/ SkipNoL4
    \/ Aggregate
    \/ BuildRows

-----------------------------------------------------------------------------
(* align_features_for_inference *)

\* A DataFrame is its list of column labels and its rows; a row holds one
\* value per column position.  EmptyTable is pd.DataFrame().
EmptyTable == [columns |-> <<>>, data |-> <<>>]

ColNames == {"dst_is_dns", "is_tcp", "pkts_per_sec"}
CellValues == {1, 2}

RECURSIVE DistinctSeqs(_)
DistinctSeqs(S) ==
    {<<>>} \cup UNION { {<<x>> \o s : s \in DistinctSeqs(S \ {x})} : x \in S }

SeqRange(s) == {s[i] : i \in 1..Len(s)}

\* col in X.columns
HasColumn(X, col) == col \in SeqRange(X.columns)

\* X[col] = value for a label that is not yet a column: a new last column
\* holding value in every row
AddColumn(X, col, value) ==
    [columns |-> Append(X.columns, col),
     data |-> [r \in 1..Len(X.data) |-> Append(X.data[r], value)]]

\* X[col] = value for a label that already is a column: overwritten in place
SetColumn(X, col, value) ==
    [columns |-> X.columns,
     data |-> [r \in 1..Len(X.data) |->
                 [i \in 1..Len(X.columns) |->
                     IF X.columns[i] = col THEN value ELSE X.data[r][i]]]]

\* (mutant) for col in feature_columns: X[col] = 0.0
RECURSIVE AddMissing_Overwrite(_, _)
AddMissing_Overwrite(X, cols) ==
    IF cols = <<>> THEN X
    ELSE AddMissing_Overwrite(IF HasColumn(X, Head(cols))
                              THEN SetColumn(X, Head(cols), 0)
                              ELSE AddColumn(X, Head(cols), 0),
                              Tail(cols))

\* for col in feature_columns: if col not in X.columns: X[col] = 0.0
RECURSIVE AddMissing(_, _)
AddMissing(X, cols) ==
    IF cols = <<>> THEN X
    ELSE AddMissing(IF HasColumn(X, Head(cols)) THEN X
                    ELSE AddColumn(X, Head(cols), 0),
                    Tail(cols))

\* the positions of table X whose label satisfies keep
RECURSIVE PositionsWhere(_, _, _)
PositionsWhere(columns, labels, from) ==
    IF from > Len(columns) THEN <<>>
    ELSE (IF columns[from] \in labels THEN <<from>> ELSE <<>>)
         \o PositionsWhere(columns, labels, from + 1)

TakePositions(X, pos) ==
    [columns |-> [i \in 1..Len(pos) |-> X.columns[pos[i]]],
     data |-> [r \in 1..Len(X.data) |->
                 [i \in 1..Len(pos) |-> X.data[r][pos[i]]]]]

\* extra_cols = [c for c in X.columns if c not in feature_columns]
\* if extra_cols: X = X.drop(columns=extra_cols)
DropExtra(X, cols) ==
    LET extra_cols == SeqRange(X.columns) \ SeqRange(cols)
    IN  IF extra_cols = {} THEN X
        ELSE TakePositions(X, PositionsWhere(X.columns,
                              SeqRange(X.columns) \ extra_cols, 1))

\* X[feature_columns]: for each requested label, in order, every column
\* carrying that label; KeyError when a label is no column of X
RECURSIVE SelectPositions(_, _)
SelectPositions(columns, cols) ==
    IF cols = <<>> THEN <<>>
    ELSE PositionsWhere(columns, {Head(cols)}, 1)
         \o SelectPositions(columns, Tail(cols))

SelectRaises(X, cols) == \E c \in SeqRange(cols) : ~HasColumn(X, c)

\* (mutant) step 3 left out
Reorder_Skip(X, cols) == X

\* X = X[feature_columns]
Reorder(X, cols) == TakePositions(X, SelectPositions(X.columns, cols))

\* the three steps after X = X_new.copy()
AlignSteps(X, cols) == DropExtra(AddMissing(X, cols), cols)

AlignRaises(X, cols) == SelectRaises(AlignSteps(X, cols), cols)

align_features_for_inference(X, cols) == Reorder(AlignSteps(X, cols), cols)

MaxRows == 2
MaxSchemaLen == 2

\* feature tables: distinct column labels in any order, 0..MaxRows rows
TablesOver(columns) ==
    { [columns |-> columns, data |-> d] :
        d \in SeqsUpTo([1..Len(columns) -> CellValues], MaxRows) }

FeatureTables == UNION { TablesOver(c) : c \in DistinctSeqs(ColNames) }

Schemas == SeqsUpTo(ColNames, MaxSchemaLen)

InitAlignVars ==
    /\ X_new \in FeatureTables
    /\ feature_columns \in Schemas
    /\ X_out = EmptyTable
    /\ align_raised = FALSE
    /\ apc = "call"

IdleAlignVars ==
    /\ X_new = EmptyTable
    /\ feature_columns = <<>>
    /\ X_out = EmptyTable
    /\ align_raised = FALSE
    /\ apc = "idle"

\* one call: it either returns the aligned table or raises KeyError at
\* X[feature_columns]
Align ==
    /\ apc = "call"
    /\ IF AlignRaises(X_new, feature_columns)
       THEN /\ align_raised' = TRUE
            /\ X_out' = X_out
       ELSE /\ align_raised' = FALSE
            /\ X_out' = align_features_for_inference(X_new, feature_columns)
    /\ apc' = "done"
    /\ UNCHANGED <<X_new, feature_columns>>
    /\ UNCHANGED <<aggVars, ruleVars>>
    /\ UNCHANGED <<scoreVars, featVars, pipeVars>>
    /\ UNCHANGED <<mlVars, epVars, ztVars, rrVars>>

-----------------------------------------------------------------------------
(* PacketVision rule engine (rules.py) *)

\* A flow table is its set of column labels and its rows; a row carries the
\* columns the detectors read.  The message of a finding is left out.
\* (mutant) "high": 4
SEVERITY_WEIGHTS_HighFour == [low |-> 1, medium |-> 2, high |-> 4, critical |-> 4]

SEVERITY_WEIGHTS == [low |-> 1, medium |-> 2, high |-> 3, critical |-> 4]

\* (mutant) SEVERITY_WEIGHTS.get(f.rule_id, 1): the lookup misses every time
SeverityWeight_Default(severity) == 1

\* SEVERITY_WEIGHTS.get(severity, 1)
SeverityWeight(severity) ==
    IF severity \in DOMAIN SEVERITY_WEIGHTS THEN SEVERITY_WEIGHTS[severity]
    ELSE 1

\* (mutant) the labels of the two upper buckets exchanged
score_to_level_Swapped(score) ==
    IF score <= 0 THEN "none"
    ELSE IF score <= 3 THEN "low"
    ELSE IF score <= 7 THEN "high"
    ELSE "medium"

score_to_level(score) ==
    IF score <= 0 THEN "none"
    ELSE IF score <= 3 THEN "low"
    ELSE IF score <= 7 THEN "medium"
    ELSE "high"

\* DataFrame.empty: no rows or no columns
IsEmpty(t) == Len(t.rows) = 0 \/ t.columns = {}

RECURSIVE SumColumn(_, _)
SumColumn(rows, col) ==
    IF rows = <<>> THEN 0 ELSE Head(rows)[col] + SumColumn(Tail(rows), col)

SCAN_PORT_THRESHOLD == 50

\* flows.groupby("src_ip")["dst_port"].nunique()
UniqueDstPorts(t) ==
    [s \in {t.rows[i].src_ip : i \in 1..Len(t.rows)} |->
        Cardinality({t.rows[i].dst_port :
                        i \in {j \in 1..Len(t.rows) : t.rows[j].src_ip = s}})]

\* (mutant) port_counts[port_counts["unique_dst_ports"] > SCAN_PORT_THRESHOLD]
SuspiciousSources_Strict(t) ==
    LET port_counts == UniqueDstPorts(t)
    IN  {s \in DOMAIN port_counts : port_counts[s] > SCAN_PORT_THRESHOLD}

\* (mutant) port_counts[port_counts["unique_dst_ports"] == SCAN_PORT_THRESHOLD]
SuspiciousSources_Exact(t) ==
    LET port_counts == UniqueDstPorts(t)
    IN  {s \in DOMAIN port_counts : port_counts[s] = SCAN_PORT_THRESHOLD}

\* port_counts[port_counts["unique_dst_ports"] >= SCAN_PORT_THRESHOLD]
SuspiciousSources(t) ==
    LET port_counts == UniqueDstPorts(t)
    IN  {s \in DOMAIN port_counts : port_counts[s] >= SCAN_PORT_THRESHOLD}

\* A detector returns <<>> for None and <<finding>> for a finding.
rule_port_scan(t) ==
    IF IsEmpty(t) THEN <<>>
    ELSE IF ~({"src_ip", "dst_port", "packet_count", "duration"}
                \subseteq t.columns) THEN <<>>
    ELSE LET suspicious_sources == SuspiciousSources(t)
         IN  IF suspicious_sources = {} THEN <<>>
             ELSE << [rule_id |-> "PV01_PORT_SCAN",
                      severity |-> "high",
                      flows_affected |->
                         Cardinality({i \in 1..Len(t.rows) :
                            t.rows[i].src_ip \in suspicious_sources})] >>

SENSITIVE_PORTS == {22, 3389, 445, 139}
BRUTE_FLOW_COUNT_THRESHOLD == 30
BRUTE_PACKET_THRESHOLD == 1000

\* (mutant) ~flows["dst_port"].isin(SENSITIVE_PORTS)
IsSensitive_Not(row) == row.dst_port \notin SENSITIVE_PORTS

IsSensitive(row) == row.dst_port \in SENSITIVE_PORTS

\* (mutant) `or` in place of `and`: below either threshold, no alert
BruteBelowGate_Or(total_flows, total_packets) ==
    \/ total_flows < BRUTE_FLOW_COUNT_THRESHOLD
    \/ total_packets < BRUTE_PACKET_THRESHOLD

\* if total_flows < ... and total_packets < ...: return None
BruteBelowGate(total_flows, total_packets) ==
    /\ total_flows < BRUTE_FLOW_COUNT_THRESHOLD
    /\ total_packets < BRUTE_PACKET_THRESHOLD

\* severity = "medium"; if total_flows >= ... or total_packets >= ...: "high"
BruteSeverity(total_flows, total_packets) ==
    IF \/ total_flows >= BRUTE_FLOW_COUNT_THRESHOLD
       \/ total_packets >= BRUTE_PACKET_THRESHOLD
    THEN "high" ELSE "medium"

rule_bruteforce_like(t) ==
    IF IsEmpty(t) THEN <<>>
    ELSE IF ~({"dst_port", "packet_count"} \subseteq t.columns) THEN <<>>
    ELSE LET sensitive_flows == SelectSeq(t.rows, IsSensitive)
             total_flows == Len(sensitive_flows)
             total_packets == SumColumn(sensitive_flows, "packet_count")
         IN  IF sensitive_flows = <<>> THEN <<>>
             ELSE IF BruteBelowGate(total_flows, total_packets) THEN <<>>
             ELSE << [rule_id |-> "PV02_BRUTEFORCE_LIKE",
                      severity |-> BruteSeverity(total_flows, total_packets),
                      flows_affected |-> total_flows] >>

DNS_PORT == 53
DNS_PKT_THRESHOLD == 500
DNS_BYTES_THRESHOLD == 500000

IsDns(row) == row.dst_port = DNS_PORT

\* if total_dns_pkts < ... and total_dns_bytes < ...: return None
DnsBelowGate(total_dns_pkts, total_dns_bytes) ==
    /\ total_dns_pkts < DNS_PKT_THRESHOLD
    /\ total_dns_bytes < DNS_BYTES_THRESHOLD

\* (mutant) `and` in place of `or` in the escalation
DnsSeverity_And(total_dns_pkts, total_dns_bytes) ==
    IF /\ total_dns_pkts >= DNS_PKT_THRESHOLD * 2
       /\ total_dns_bytes >= DNS_BYTES_THRESHOLD * 2
    THEN "high" ELSE "medium"

\* severity = "medium"; if pkts >= 2 * ... or bytes >= 2 * ...: "high"
DnsSeverity(total_dns_pkts, total_dns_bytes) ==
    IF \/ total_dns_pkts >= DNS_PKT_THRESHOLD * 2
       \/ total_dns_bytes >= DNS_BYTES_THRESHOLD * 2
    THEN "high" ELSE "medium"

rule_dns_tunnel_like(t) ==
    IF IsEmpty(t) THEN <<>>
    ELSE IF ~({"dst_port", "packet_count", "total_bytes"}
                \subseteq t.columns) THEN <<>>
    ELSE LET dns_flows == SelectSeq(t.rows, IsDns)
             total_dns_pkts == SumColumn(dns_flows, "packet_count")
             total_dns_bytes == SumColumn(dns_flows, "total_bytes")
         IN  IF dns_flows = <<>> THEN <<>>
             ELSE IF DnsBelowGate(total_dns_pkts, total_dns_bytes) THEN <<>>
             ELSE << [rule_id |-> "PV03_DNS_TUNNEL_LIKE",
                      severity |-> DnsSeverity(total_dns_pkts, total_dns_bytes),
                      flows_affected |-> Len(dns_flows)] >>

\* for f in findings: score += SEVERITY_WEIGHTS.get(f.severity, 1)
RECURSIVE ScoreOf(_)
ScoreOf(findings) ==
    IF findings = <<>> THEN 0
    ELSE SeverityWeight(Head(findings).severity) + ScoreOf(Tail(findings))

\* (mutant) `if finding is None: break` in the loop over the rules
analyze_flows_with_rules_StopAtNone(t) ==
    LET first == rule_port_scan(t)
        second == IF first = <<>> THEN <<>> ELSE rule_bruteforce_like(t)
        third == IF second = <<>> THEN <<>> ELSE rule_dns_tunnel_like(t)
        findings == first \o second \o third
        score == ScoreOf(findings)
    IN  [risk_level |-> score_to_level(score),
         risk_score |-> score,
         num_findings |-> Len(findings),
         findings |-> findings]

analyze_flows_with_rules(t) ==
    LET findings == rule_port_scan(t) \o rule_bruteforce_like(t)
                       \o rule_dns_tunnel_like(t)
        score == ScoreOf(findings)
    IN  [risk_level |-> score_to_level(score),
         risk_score |-> score,
         num_findings |-> Len(findings),
         findings |-> findings]

-----------------------------------------------------------------------------
(* CloudSentinel rule engine (rules.py) and scoring (analyzer.py) *)

\* The action strings of the modelled policies; the string operations the
\* rules apply are tabulated over them.
ActionStrings ==
    {"*", "iam:*", "s3:*", "iam:PassRole", "IAM:PASSROLE", "ec2:RunInstances",
     "lambda:CreateFunction", "sts:AssumeRole", "s3:GetObject",
     "AdministratorAccess"}

\* str.lower()
Lower(str) ==
    CASE str = "iam:PassRole" -> "iam:passrole"
      [] str = "IAM:PASSROLE" -> "iam:passrole"
      [] str = "ec2:RunInstances" -> "ec2:runinstances"
      [] str = "lambda:CreateFunction" -> "lambda:createfunction"
      [] str = "lambda:UpdateFunctionCode" -> "lambda:updatefunctioncode"
      [] str = "sts:AssumeRole" -> "sts:assumerole"
      [] str = "s3:GetObject" -> "s3:getobject"
      [] str = "AdministratorAccess" -> "administratoraccess"
      [] OTHER -> str

\* action.endswith(":*")
EndsWithColonStar(action) == action \in {"iam:*", "s3:*"}

\* _service_prefix on the service-wide wildcards
service_prefix(action) ==
    CASE action = "iam:*" -> "iam"
      [] action = "s3:*" -> "s3"
      [] OTHER -> action

HIGH_RISK_SERVICES == {"iam", "kms", "sts", "organizations"}

\* any(kw.lower() in action.lower() for kw in keywords)
HasAdminKeyword(action) == Lower(action) \in {"administratoraccess"}

\* res == "*" or res.strip() == "*"
IsWildcardResource(res) == res \in {"*", " * "}

CFinding(rule_id, severity, location) ==
    [rule_id |-> rule_id, severity |-> severity, location |-> location]

RECURSIVE rule_wildcard_action(_, _)
rule_wildcard_action(actions, location) ==
    IF actions = <<>> THEN <<>>
    ELSE LET action == Head(actions)
             hit == IF action = "*"
                    THEN <<CFinding("R01_WILDCARD_ACTION", "critical", location)>>
                    ELSE IF EndsWithColonStar(action)
                    THEN <<CFinding("R01_WILDCARD_ACTION",
                              IF service_prefix(action) \in HIGH_RISK_SERVICES
                              THEN "high" ELSE "medium", location)>>
                    ELSE <<>>
         IN  hit \o rule_wildcard_action(Tail(actions), location)

RECURSIVE rule_wildcard_resource(_, _)
rule_wildcard_resource(resources, location) ==
    IF resources = <<>> THEN <<>>
    ELSE (IF IsWildcardResource(Head(resources))
          THEN <<CFinding("R02_WILDCARD_RESOURCE", "high", location)>>
          ELSE <<>>)
         \o rule_wildcard_resource(Tail(resources), location)

RECURSIVE rule_high_risk_service_wildcard(_, _)
rule_high_risk_service_wildcard(actions, location) ==
    IF actions = <<>> THEN <<>>
    ELSE (IF /\ EndsWithColonStar(Head(actions))
             /\ service_prefix(Head(actions)) \in HIGH_RISK_SERVICES
          THEN <<CFinding("R03_HIGH_RISK_WILDCARD", "critical", location)>>
          ELSE <<>>)
         \o rule_high_risk_service_wildcard(Tail(actions), location)

rule_privilege_escalation_patterns(actions, location) ==
    LET actions_set == {Lower(actions[i]) : i \in 1..Len(actions)}
        has_passrole == Lower("iam:PassRole") \in actions_set
        has_assumerole == Lower("sts:AssumeRole") \in actions_set
        has_ec2_run == Lower("ec2:RunInstances") \in actions_set
        has_lambda_create == Lower("lambda:CreateFunction") \in actions_set
        has_lambda_update == Lower("lambda:UpdateFunctionCode") \in actions_set
    IN  (IF has_passrole /\ has_ec2_run
         THEN <<CFinding("R04_PRIV_ESC_PASSROLE_EC2", "high", location)>>
         ELSE <<>>)
        \o (IF has_passrole /\ (has_lambda_create \/ has_lambda_update)
            THEN <<CFinding("R04_PRIV_ESC_PASSROLE_LAMBDA", "high", location)>>
            ELSE <<>>)
        \o (IF has_assumerole
            THEN <<CFinding("R04_ASSUME_ROLE_REVIEW", "medium", location)>>
            ELSE <<>>)

RECURSIVE rule_admin_like_actions(_, _)
rule_admin_like_actions(actions, location) ==
    IF actions = <<>> THEN <<>>
    ELSE (IF HasAdminKeyword(Head(actions))
          THEN <<CFinding("R05_ADMIN_LIKE_ACTION", "high", location)>>
          ELSE <<>>)
         \o rule_admin_like_actions(Tail(actions), location)

\* location is the statement's index, for f"Statement[{index}]"
evaluate_statement(statement, index) ==
    rule_wildcard_action(statement.Action, index)
    \o rule_wildcard_resource(statement.Resource, index)
    \o rule_high_risk_service_wildcard(statement.Action, index)
    \o rule_privilege_escalation_patterns(statement.Action, index)
    \o rule_admin_like_actions(statement.Action, index)

RECURSIVE EvaluateFrom(_, _)
EvaluateFrom(statements, index) ==
    IF index >= Len(statements) THEN <<>>
    ELSE evaluate_statement(statements[index + 1], index)
         \o EvaluateFrom(statements, index + 1)

evaluate_policy(statements) == EvaluateFrom(statements, 0)

\* SEVERITY_WEIGHTS.get(f.severity.lower(), 1)
CSeverityWeight(severity) ==
    IF Lower(severity) \in DOMAIN SEVERITY_WEIGHTS
    THEN SEVERITY_WEIGHTS[Lower(severity)]
    ELSE 1

RECURSIVE CScoreOf(_)
CScoreOf(findings) ==
    IF findings = <<>> THEN 0
    ELSE CSeverityWeight(Head(findings).severity) + CScoreOf(Tail(findings))

CLevelOf(score) ==
    IF score = 0 THEN "none"
    ELSE IF score <= 3 THEN "low"
    ELSE IF score <= 7 THEN "medium"
    ELSE IF score <= 12 THEN "high"
    ELSE "critical"

score_findings(findings) ==
    LET score == CScoreOf(findings)
    IN  <<score, CLevelOf(score)>>

\* analyze_policy(policy, include_features=False)
analyze_policy(statements) ==
    LET findings == evaluate_policy(statements)
        scored == score_findings(findings)
    IN  [risk_level |-> scored[2],
         risk_score |-> scored[1],
         num_statements |-> Len(statements),
         num_findings |-> Len(findings),
         findings |-> findings]

-----------------------------------------------------------------------------
(* Rule engines: inputs, actions, specifications *)

MaxAppend == 1
MaxStatements == 2

SrcA == "10.0.0.1"
SrcB == "10.0.0.2"
SrcC == "10.0.0.9"

FlowOf(src, port, pkts, bytes) ==
    [src_ip |-> src, dst_port |-> port, packet_count |-> pkts,
     total_bytes |-> bytes]

\* n flows of one source to n distinct destination ports from 6000 upwards
ScanRows(src, n) == [i \in 1..n |-> FlowOf(src, 6000 + i - 1, 2, 120)]

AdminPorts == <<22, 3389, 445, 139>>

\* n flows to the admin ports, pkts packets each
AdminRows(n, pkts) ==
    [i \in 1..n |-> FlowOf(SrcC, AdminPorts[((i - 1) % 4) + 1], pkts, 60 * pkts)]

\* one port-53 flow, or none
DnsRows(d) == IF d = <<>> THEN <<>> ELSE <<FlowOf(SrcC, DNS_PORT, d[1], d[2])>>

ScanSizes == {0, SCAN_PORT_THRESHOLD - 1, SCAN_PORT_THRESHOLD}

AdminShapes ==
    { <<0, 1>>, <<1, BRUTE_PACKET_THRESHOLD - 1>>, <<1, BRUTE_PACKET_THRESHOLD>>,
      <<BRUTE_FLOW_COUNT_THRESHOLD - 1, 1>>, <<BRUTE_FLOW_COUNT_THRESHOLD, 1>> }

DnsShapes ==
    { <<>> } \cup
    { <<p, 100>> : p \in {1, DNS_PKT_THRESHOLD - 1, DNS_PKT_THRESHOLD,
                          2 * DNS_PKT_THRESHOLD - 1, 2 * DNS_PKT_THRESHOLD} } \cup
    { <<1, b>> : b \in {DNS_BYTES_THRESHOLD - 1, DNS_BYTES_THRESHOLD,
                        2 * DNS_BYTES_THRESHOLD - 1, 2 * DNS_BYTES_THRESHOLD} }

\* flow tables as the parser returns them: all eleven columns
FlowTable(rows) == [columns |-> SeqRange(FlowColumns), rows |-> rows]

SeedTables ==
    { FlowTable(ScanRows(SrcA, a) \o ScanRows(SrcB, b)
                  \o AdminRows(s[1], s[2]) \o DnsRows(d)) :
        a \in ScanSizes, b \in {0, SCAN_PORT_THRESHOLD},
        s \in AdminShapes, d \in DnsShapes }

\* further flows a capture may add to a table
ExtraFlows ==
    { FlowOf(SrcA, 6000, 1, 60), FlowOf(SrcA, 22, 1, 60),
      FlowOf(SrcB, DNS_PORT, 1, 60), FlowOf(SrcC, DNS_PORT, 1, 1),
      FlowOf(SrcC, 8080, 5, 300) }

ActionLists ==
    { <<>>, <<"*">>, <<"iam:*">>, <<"s3:*">>,
      <<"iam:PassRole", "ec2:RunInstances">>,
      <<"IAM:PASSROLE", "lambda:CreateFunction", "sts:AssumeRole">>,
      <<"s3:GetObject">>, <<"AdministratorAccess", "s3:GetObject">> }

ResourceLists == { <<"*">>, <<"arn:aws:s3:::bucket">>, <<" * ", "*">> }

Statements == [Action : ActionLists, Resource : ResourceLists]

Policies == SeqsUpTo(Statements, MaxStatements)

IdleRuleVars ==
    /\ flows = FlowTable(<<>>)
    /\ n_appended = 0
    /\ policy = <<>>
    /\ report = <<>>
    /\ rpc = "idle"

\* a flow table arrives from the parser
LoadFlows ==
    /\ rpc = "idle"
    /\ flows' \in SeedTables
    /\ rpc' = "loaded"
    /\ UNCHANGED <<n_appended, policy, report>>
    /\ UNCHANGED <<aggVars, alignVars>>
    /\ UNCHANGED <<scoreVars, featVars, pipeVars>>
    /\ UNCHANGED <<mlVars, epVars, ztVars, rrVars>>

\* a later capture holds the same flows and one more
AppendFlow ==
    /\ rpc \in {"loaded", "analyzed"}
    /\ n_appended < MaxAppend
    /\ \E f \in ExtraFlows :
         flows' = [flows EXCEPT !.rows = Append(@, f)]
    /\ n_appended' = n_appended + 1
    /\ rpc' = "loaded"
    /\ UNCHANGED <<policy, report>>
    /\ UNCHANGED <<aggVars, alignVars>>
    /\ UNCHANGED <<scoreVars, featVars, pipeVars>>
    /\ UNCHANGED <<mlVars, epVars, ztVars, rrVars>>

\* rule_result = analyze_flows_with_rules(flows_df)
AnalyzeFlows ==
    /\ rpc = "loaded"
    /\ report' = analyze_flows_with_rules(flows)
    /\ rpc' = "analyzed"
    /\ UNCHANGED <<flows, n_appended, policy>>
    /\ UNCHANGED <<aggVars, alignVars>>
    /\ UNCHANGED <<scoreVars, featVars, pipeVars>>
    /\ UNCHANGED <<mlVars, epVars, ztVars, rrVars>>

\* analyze_policy(policy)
AnalyzePolicy ==
    /\ rpc = "idle"
    /\ policy' \in Policies
    /\ report' = analyze_policy(policy')
    /\ rpc' = "policy_done"
    /\ UNCHANGED <<flows, n_appended>>
    /\ UNCHANGED <<aggVars, alignVars>>
    /\ UNCHANGED <<scoreVars, featVars, pipeVars>>
    /\ UNCHANGED <<mlVars, epVars, ztVars, rrVars>>

\* flow tables that lack some of the columns the detectors test for; a
\* row holds no value for a column the table lacks
GuardedColumns == {"src_ip", "dst_port", "packet_count", "duration", "total_bytes"}

WithoutColumns(t, missing) ==
    [columns |-> t.columns \ missing,
     rows |-> [i \in 1..Len(t.rows) |->
                 [c \in (DOMAIN t.rows[i]) \ missing |-> t.rows[i][c]]]]

PartialSeeds ==
    { FlowTable(ScanRows(SrcA, a) \o AdminRows(s[1], s[2]) \o DnsRows(d)) :
        a \in {0, SCAN_PORT_THRESHOLD},
        s \in {<<1, 1>>, <<BRUTE_FLOW_COUNT_THRESHOLD, 1>>},
        d \in {<<>>, <<DNS_PKT_THRESHOLD, 100>>, <<1, 2 * DNS_BYTES_THRESHOLD>>} }

PartialTables ==
    { WithoutColumns(t, missing) :
        t \in PartialSeeds, missing \in (SUBSET GuardedColumns) \ {{}} }

\* a flow table arrives that was not built by the parser
LoadPartialFlows ==
    /\ rpc = "idle"
    /\ flows' \in PartialTables
    /\ rpc' = "loaded"
    /\ UNCHANGED <<n_appended, policy, report>>
    /\ UNCHANGED <<aggVars, alignVars>>
    /\ UNCHANGED <<scoreVars, featVars, pipeVars>>
    /\ UNCHANGED <<mlVars, epVars, ztVars, rrVars>>

\* q flows of heavy traffic to ports that are neither administrative nor DNS
QuietPorts == <<80, 443, 8080>>

QuietRows(q) ==
    [i \in 1..q |-> FlowOf(SrcC, QuietPorts[i], 2 * BRUTE_PACKET_THRESHOLD,
                           2 * DNS_BYTES_THRESHOLD)]

\* the port-scan scenario (60 flows of one source to ports 6000..6059, two
\* packets each) and its neighbours
ScenarioTables ==
    { FlowTable(ScanRows(SrcA, a) \o ScanRows(SrcB, b) \o QuietRows(q)) :
        a \in {0, 1, SCAN_PORT_THRESHOLD - 1, SCAN_PORT_THRESHOLD, 60},
        b \in {0, 60}, q \in 0..Len(QuietPorts) }

\* a capture of scan-like and bulk traffic arrives from the parser
LoadScenarioFlows ==
    /\ rpc = "idle"
    /\ flows' \in ScenarioTables
    /\ rpc' = "loaded"
    /\ UNCHANGED <<n_appended, policy, report>>
    /\ UNCHANGED <<aggVars, alignVars>>
    /\ UNCHANGED <<scoreVars, featVars, pipeVars>>
    /\ UNCHANGED <<mlVars, epVars, ztVars, rrVars>>

-----------------------------------------------------------------------------
(* The two score -> level mappings, each applied to a pair of scores *)

MaxScore == 9
MaxFindings == 4

IdleScoreVars ==
    /\ score_in = <<0, 0>>
    /\ level_out = <<"none", "none">>
    /\ spc = "idle"

\* the findings lists handed to _score_findings: any severities, in any order
FindingLists ==
    { [i \in 1..Len(sev) |-> CFinding("R", sev[i], 0)] :
        sev \in SeqsUpTo({"low", "high", "critical"}, MaxFindings) }

\* _score_to_level(a) and _score_to_level(b)
ScoreToLevel ==
    /\ spc = "idle"
    /\ \E a, b \in (0 - MaxScore)..MaxScore :
         /\ score_in' = <<a, b>>
         /\ level_out' = <<score_to_level(a), score_to_level(b)>>
    /\ spc' = "pv_done"
    /\ UNCHANGED <<aggVars, alignVars, ruleVars>>
    /\ UNCHANGED <<featVars, pipeVars>>
    /\ UNCHANGED <<mlVars, epVars, ztVars, rrVars>>

\* _score_findings(fa) and _score_findings(fb)
ScoreFindings ==
    /\ spc = "idle"
    /\ \E fa, fb \in FindingLists :
         LET ra == score_findings(fa)
             rb == score_findings(fb)
         IN  /\ score_in' = <<ra[1], rb[1]>>
             /\ level_out' = <<ra[2], rb[2]>>
    /\ spc' = "cs_done"
    /\ UNCHANGED <<aggVars, alignVars, ruleVars>>
    /\ UNCHANGED <<featVars, pipeVars>>
    /\ UNCHANGED <<mlVars, epVars, ztVars, rrVars>>

-----------------------------------------------------------------------------
(* build_features (features.py) *)

\* A duration is a number of ticks of half a microsecond, so that the
\* default eps = 1e-6 is 2 ticks, 1.0 is 2000000 ticks and 60.0 is
\* 120000000 ticks; a rate is the exact fraction per tick.
EPS == 2
SHORT_FLOW_LIMIT == 2000000
LONG_FLOW_LIMIT == 120000000

\* DataFrame.empty on a frame [columns, rows]
FrameEmpty(df) == Len(df.rows) = 0 \/ Len(df.columns) = 0

\* (mutant) denominator.clip(lower=eps)
ReplaceZero_Clip(d) == IF d < EPS THEN EPS ELSE d

\* denominator.replace(0, eps)
ReplaceZero(d) == IF d = 0 THEN EPS ELSE d

\* numerator / (denominator.replace(0, eps)), row by row
safe_divide(numerator, denominator) ==
    TrueDiv(numerator, ReplaceZero(denominator))

\* .astype(int) on a boolean
BoolToInt(b) == IF b THEN 1 ELSE 0

\* (mutant) df["protocol"] != "TCP"
IsUdp_NotTcp(row) == BoolToInt(row.protocol # "TCP")

\* (df["protocol"] == "UDP").astype(int)
IsUdp(row) == BoolToInt(row.protocol = "UDP")

\* the columns lines 68-102 assign, in the order they assign them
derived_columns ==
    <<"pkts_per_sec", "bytes_per_sec", "avg_packet_size", "is_tcp", "is_udp",
      "dst_is_web", "dst_is_dns", "dst_is_ssh", "dst_is_smb", "dst_is_rdp",
      "dst_high_port", "src_high_port", "is_short_flow", "is_long_flow">>

\* the value each of these assignments gives a row; avg_packet_size is
\* .astype(float) of a column that already holds floats
FeatureValue(col, row) ==
    CASE col = "pkts_per_sec" -> safe_divide(row.packet_count, row.duration)
      [] col = "bytes_per_sec" -> safe_divide(row.total_bytes, row.duration)
      [] col = "avg_packet_size" -> row.avg_packet_size
      [] col = "is_tcp" -> BoolToInt(row.protocol = "TCP")
      [] col = "is_udp" -> IsUdp(row)
      [] col = "dst_is_web" -> BoolToInt(row.dst_port \in {80, 443, 8080})
      [] col = "dst_is_dns" -> BoolToInt(row.dst_port = 53)
      [] col = "dst_is_ssh" -> BoolToInt(row.dst_port = 22)
      [] col = "dst_is_smb" -> BoolToInt(row.dst_port \in {139, 445})
      [] col = "dst_is_rdp" -> BoolToInt(row.dst_port = 3389)
      [] col = "dst_high_port" -> BoolToInt(row.dst_port >= 1024)
      [] col = "src_high_port" -> BoolToInt(row.src_port >= 1024)
      [] col = "is_short_flow" -> BoolToInt(row.duration < SHORT_FLOW_LIMIT)
      [] col = "is_long_flow" -> BoolToInt(row.duration > LONG_FLOW_LIMIT)

\* df[col] = ...: a new last column, or an existing column overwritten in
\* place
Derive(df, col) ==
    [columns |-> IF col \in SeqRange(df.columns) THEN df.columns
                 ELSE Append(df.columns, col),
     rows |-> [i \in 1..Len(df.rows) |->
                 [c \in (DOMAIN df.rows[i]) \cup {col} |->
                     IF c = col THEN FeatureValue(col, df.rows[i])
                     ELSE df.rows[i][c]]]]

RECURSIVE AddDerived(_, _)
AddDerived(df, cols) ==
    IF cols = <<>> THEN df
    ELSE AddDerived(Derive(df, Head(cols)), Tail(cols))

cols_to_drop == <<"src_ip", "dst_ip", "protocol", "start_time", "end_time">>

\* if col in df.columns: df = df.drop(columns=[col])
DropColumn(df, col) ==
    IF col \notin SeqRange(df.columns) THEN df
    ELSE [columns |-> SelectSeq(df.columns, LAMBDA c : c # col),
          rows |-> [i \in 1..Len(df.rows) |->
                      [c \in (DOMAIN df.rows[i]) \ {col} |-> df.rows[i][c]]]]

RECURSIVE DropColumns(_, _)
DropColumns(df, cols) ==
    IF cols = <<>> THEN df
    ELSE DropColumns(DropColumn(df, Head(cols)), Tail(cols))

\* Python's order of the column labels build_features meets: LabelOrder[i]
\* < LabelOrder[j] exactly when i < j
LabelOrder ==
    <<"avg_packet_size", "bytes_per_sec", "dst_high_port", "dst_ip",
      "dst_is_dns", "dst_is_rdp", "dst_is_smb", "dst_is_ssh", "dst_is_web",
      "dst_port", "duration", "end_time", "is_long_flow", "is_short_flow",
      "is_tcp", "is_udp", "packet_count", "pkts_per_sec", "protocol",
      "src_high_port", "src_ip", "src_port", "start_time", "total_bytes">>

LabelRank(c) == CHOOSE i \in 1..Len(LabelOrder) : LabelOrder[i] = c

\* the list with label c put in before the first label that is greater
RECURSIVE InsertSorted(_, _)
InsertSorted(sorted, c) ==
    IF sorted = <<>> THEN <<c>>
    ELSE IF LabelRank(c) < LabelRank(Head(sorted)) THEN <<c>> \o sorted
    ELSE <<Head(sorted)>> \o InsertSorted(Tail(sorted), c)

\* (mutant) the reindex left out: the columns stay as they are
SortLabels_Skip(cols) == cols

\* sorted(df.columns)
RECURSIVE SortLabels(_)
SortLabels(cols) ==
    IF cols = <<>> THEN <<>>
    ELSE InsertSorted(SortLabels(Tail(cols)), Head(cols))

\* df.reindex(labels, axis=1) for labels that are all columns of df
Reindex(df, labels) == [columns |-> labels, rows |-> df.rows]

build_features(flows_table) ==
    IF FrameEmpty(flows_table) THEN NoFrame
    ELSE LET df == DropColumns(AddDerived(flows_table, derived_columns),
                                 cols_to_drop)
         IN  Reindex(df, SortLabels(df.columns))

\* df = flows.copy(): every assignment goes to the copy, the caller's table
\* is what it was
CallerFrameAfter(flows_table) == flows_table

MaxFeatRows == 2
MaxCalls == 2

\* a parser row with the given protocol, ports, counters and duration
FeatRow(proto, sport, dport, count, bytes, dur) ==
    [src_ip |-> "10.0.0.1", dst_ip |-> "10.0.0.2", src_port |-> sport,
     dst_port |-> dport, protocol |-> proto, packet_count |-> count,
     total_bytes |-> bytes, start_time |-> 1, end_time |-> 1 + dur,
     duration |-> dur, avg_packet_size |-> TrueDiv(bytes, count)]

FeatDurations ==
    {0, 1, EPS, EPS + 1, SHORT_FLOW_LIMIT - 1, SHORT_FLOW_LIMIT,
     SHORT_FLOW_LIMIT + 1, LONG_FLOW_LIMIT - 1, LONG_FLOW_LIMIT,
     LONG_FLOW_LIMIT + 1}

FeatRows ==
    { FeatRow("TCP", 40000, 80, 3, 180, d) : d \in FeatDurations } \cup
    { FeatRow("UDP", 53, 53, 1, 60, 0),
      FeatRow("ICMP", 0, 0, 1, 60, 0),
      FeatRow("TCP", 1023, 22, 2, 3000, 1),
      FeatRow("TCP", 1024, 445, 2, 120, EPS),
      FeatRow("UDP", 1024, 1024, 7, 420, LONG_FLOW_LIMIT + 1),
      FeatRow("TCP", 50000, 3389, 5, 300, SHORT_FLOW_LIMIT) }

Reverse(s) == [i \in 1..Len(s) |-> s[Len(s) + 1 - i]]

\* the parser's columns as the parser lists them, reversed, and rotated
ColumnOrders ==
    { FlowColumns, Reverse(FlowColumns),
      SubSeq(FlowColumns, 5, Len(FlowColumns)) \o SubSeq(FlowColumns, 1, 4) }

FeatTables ==
    { [columns |-> c, rows |-> r] :
        c \in ColumnOrders, r \in SeqsUpTo(FeatRows, MaxFeatRows) }

InitFeatVars ==
    /\ feat_in \in FeatTables
    /\ feat_orig = feat_in
    /\ feat_prev = NoFrame
    /\ feat_out = NoFrame
    /\ feat_calls = 0

IdleFeatVars ==
    /\ feat_in = NoFrame
    /\ feat_orig = NoFrame
    /\ feat_prev = NoFrame
    /\ feat_out = NoFrame
    /\ feat_calls = 0

\* features_df = build_features(flows_df), on the same flows_df once more
BuildFeatures ==
    /\ feat_calls < MaxCalls
    /\ feat_in # NoFrame
    /\ feat_prev' = feat_out
    /\ feat_out' = build_features(feat_in)
    /\ feat_in' = CallerFrameAfter(feat_in)
    /\ feat_calls' = feat_calls + 1
    /\ UNCHANGED feat_orig
    /\ UNCHANGED <<aggVars, alignVars, ruleVars>>
    /\ UNCHANGED <<scoreVars, pipeVars>>
    /\ UNCHANGED <<mlVars, epVars, ztVars, rrVars>>

-----------------------------------------------------------------------------
(* parse_pcap_to_flows as one call, and analyze_pcap (analyzer.py) *)

\* the four dicts of a call, right after lines 66-69
FreshAccumulators ==
    [flow_keys |-> <<>>, packet_counts |-> EmptyDict, total_bytes |-> EmptyDict,
     first_ts |-> EmptyDict, last_ts |-> EmptyDict]

\* one pass of the for-loop body (lines 71-107) over the call's dicts
LoopBody(acc, pkt) ==
    IF ~HasIP(pkt) THEN acc
    ELSE IF ProtocolOf(pkt) = "NONE" THEN acc
    ELSE LET key == FlowKeyOf(pkt)
         IN  [flow_keys |-> KeyOrderUpdate(acc.flow_keys, acc.packet_counts, key),
              packet_counts |-> CountInc(acc.packet_counts, key),
              total_bytes |-> BytesAdd(acc.total_bytes, key, pkt.len),
              first_ts |-> FirstTsUpdate(acc.first_ts, key, pkt.time),
              last_ts |-> LastTsUpdate(acc.last_ts, key, pkt.time)]

RECURSIVE RunLoop(_, _, _)
RunLoop(acc, pkts, i) ==
    IF i > Len(pkts) THEN acc
    ELSE RunLoop(LoopBody(acc, pkts[i]), pkts, i + 1)

FrameOf(acc) ==
    BuildFrame(acc.flow_keys, acc.packet_counts, acc.total_bytes,
               acc.first_ts, acc.last_ts)

\* the whole call on the packets rdpcap() returned
parse_pcap_to_flows(pkts) == FrameOf(RunLoop(FreshAccumulators, pkts, 1))

\* the same frame as the rule engine reads it
RuleView(df) == [columns |-> SeqRange(df.columns), rows |-> df.rows]

\* lines 105-109 and 118-120: the model artifacts are not on disk, or there
\* is nothing to score
NoMlResult ==
    [summary |-> [num_flows_scored |-> 0, label_counts |-> <<>>],
     per_flow |-> <<>>]

BuildReport(flows_table, rule_result) ==
    [num_flows |-> Len(flows_table.rows),
     rule_based |-> rule_result,
     ml_based |-> NoMlResult]

\* analyze_pcap run from start to end with nothing else running
analyze_pcap(pkts) ==
    LET flows_table == parse_pcap_to_flows(pkts)
    IN  BuildReport(flows_table, analyze_flows_with_rules(RuleView(flows_table)))

MaxPipePackets == 2

\* the requests being served side by side
Invocations == {"req1", "req2"}

\* a web flow, a port-53 flow whose one frame stands for a 500000-byte
\* burst, and a frame without an IP layer
PipePackets ==
    { [ip |-> TRUE, l4 |-> "TCP", src |-> "10.0.0.1", dst |-> "10.0.0.2",
       sport |-> 40000, dport |-> 80, len |-> 60, time |-> 1],
      [ip |-> TRUE, l4 |-> "UDP", src |-> "10.0.0.1", dst |-> "10.0.0.3",
       sport |-> 40001, dport |-> DNS_PORT, len |-> DNS_BYTES_THRESHOLD,
       time |-> 2],
      [ip |-> FALSE, l4 |-> "NONE", src |-> "", dst |-> "", sport |-> 0,
       dport |-> 0, len |-> 60, time |-> 1] }

NoReport == <<>>

\* the locals of one analyze_pcap call when it enters the parser's loop
CallStart(pkts) ==
    [packets |-> pkts, idx |-> 1, acc |-> FreshAccumulators,
     flows_df |-> NoFrame, rule_result |-> NoReport, features_df |-> NoFrame,
     report |-> NoReport, pc |-> "loop"]

InitPipeVars ==
    calls \in [Invocations -> {CallStart(p) :
                                 p \in SeqsUpTo(PipePackets, MaxPipePackets)}]

IdlePipeVars == calls = [i \in Invocations |-> CallStart(<<>>)]

\* (mutant) the dicts are module-level: every call works on the dicts of
\* the first request
AccumulatorsSeenBy_Module(c, i) == c["req1"].acc

\* the dicts are locals of the call (lines 66-69)
AccumulatorsSeenBy(c, i) == c[i].acc

\* one iteration of the parser's loop in invocation i
PipeLoop(i) ==
    /\ calls[i].pc = "loop"
    /\ calls[i].idx <= Len(calls[i].packets)
    /\ calls' = [calls EXCEPT
                   ![i].acc = LoopBody(AccumulatorsSeenBy(calls, i),
                                       calls[i].packets[calls[i].idx]),
                   ![i].idx = @ + 1]
    /\ UNCHANGED <<aggVars, alignVars, ruleVars>>
    /\ UNCHANGED <<scoreVars, featVars>>
    /\ UNCHANGED <<mlVars, epVars, ztVars, rrVars>>

\* flows_df = parse_pcap_to_flows(pcap_path) returns (line 96)
PipeParsed(i) ==
    /\ calls[i].pc = "loop"
    /\ calls[i].idx > Len(calls[i].packets)
    /\ calls' = [calls EXCEPT
                   ![i].flows_df = FrameOf(AccumulatorsSeenBy(calls, i)),
                   ![i].pc = "parsed"]
    /\ UNCHANGED <<aggVars, alignVars, ruleVars>>
    /\ UNCHANGED <<scoreVars, featVars>>
    /\ UNCHANGED <<mlVars, epVars, ztVars, rrVars>>

\* rule_result = analyze_flows_with_rules(flows_df) (line 100)
PipeRules(i) ==
    /\ calls[i].pc = "parsed"
    /\ calls' = [calls EXCEPT
                   ![i].rule_result =
                       analyze_flows_with_rules(RuleView(calls[i].flows_df)),
                   ![i].pc = "ruled"]
    /\ UNCHANGED <<aggVars, alignVars, ruleVars>>
    /\ UNCHANGED <<scoreVars, featVars>>
    /\ UNCHANGED <<mlVars, epVars, ztVars, rrVars>>

\* features_df = build_features(flows_df) (line 103), then the report is
\* built and returned (lines 105-132)
PipeFeatures(i) ==
    /\ calls[i].pc = "ruled"
    /\ calls' = [calls EXCEPT
                   ![i].features_df = build_features(calls[i].flows_df),
                   ![i].flows_df = CallerFrameAfter(@),
                   ![i].report = BuildReport(calls[i].flows_df,
                                             calls[i].rule_result),
                   ![i].pc = "done"]
    /\ UNCHANGED <<aggVars, alignVars, ruleVars>>
    /\ UNCHANGED <<scoreVars, featVars>>
    /\ UNCHANGED <<mlVars, epVars, ztVars, rrVars>>

-----------------------------------------------------------------------------
(* The scoring steps: predict_flows (ml.py) and the /predict endpoints *)

\* A fitted RandomForestClassifier is a black box: its classes_ (sorted, as
\* fit() leaves them), the number of columns it was fitted on, and for each
\* row it is shown a vector of class probabilities.  Probabilities are
\* counted in halves: ProbUnit is 1.0.
ProbUnit == 2

MaxMlRows == 2

NoModel == [classes_ |-> <<>>, n_features_in_ |-> 0]

\* the label sets a PacketVision model is fitted on (pipeline.py)
ClassLists ==
    { <<"benign", "port_scan">>, <<"benign", "bruteforce", "port_scan">> }

Classifiers == [classes_ : ClassLists, n_features_in_ : 1..2]

RECURSIVE SumSeq(_)
SumSeq(s) == IF s = <<>> THEN 0 ELSE Head(s) + SumSeq(Tail(s))

\* one row of predict_proba over k classes: non-negative, summing to 1
ProbRows(k) == {p \in [1..k -> 0..ProbUnit] : SumSeq(p) = ProbUnit}

\* what predict_proba may return for a table of n rows
ProbaOutputs(k, n) == [1..n -> ProbRows(k)]

\* np.argmax: the first position holding the maximum
ArgMax(p) ==
    CHOOSE i \in 1..Len(p) :
        /\ \A j \in 1..Len(p) : p[j] <= p[i]
        /\ \A j \in 1..(i - 1) : p[j] < p[i]

\* (mutant) model.predict_proba(X)[0][0]
MaxProb_First(p) == p[1]

\* max(row)
MaxProb(p) == p[ArgMax(p)]

\* model.predict of a forest: classes_.take(argmax(predict_proba))
ModelPredict(m, P) == [i \in 1..Len(P) |-> m.classes_[ArgMax(P[i])]]

\* the classifier rejects a table whose width is not the one it was
\* fitted on (the shape mismatch)
PredictRaises(m, X) == Len(X.columns) # m.n_features_in_

\* X_aligned.empty: no rows or no columns
AlignedEmpty(X) == Len(X.data) = 0 \/ Len(X.columns) = 0

\* {k: v for k, v in zip(keys, vals)}: the shorter list bounds the pairs, a
\* repeated key keeps its last value
ZipDict(keys, vals) ==
    LET n == IF Len(keys) <= Len(vals) THEN Len(keys) ELSE Len(vals)
    IN  [k \in {keys[i] : i \in 1..n} |->
           vals[CHOOSE i \in 1..n :
                  /\ keys[i] = k
                  /\ \A j \in (i + 1)..n : keys[j] # k]]

\* (mutant) the loop appends the verdict of the row mirrored from the end
RowOfVerdict_Mirrored(n, i) == n + 1 - i

\* for idx in range(X_aligned.shape[0]): verdict idx is built from row idx
RowOfVerdict(n, i) == i

\* the dictionary appended for one row; str() of a label that is a string
\* and float() of a float64 keep the value
PackageVerdict(m, labels, P, i) ==
    [predicted_label |-> labels[i],
     probabilities |-> ZipDict(m.classes_, P[i])]

\* lines 215-231, given what the classifier returned
PackageResults(m, X, labels, P) ==
    LET n == Len(X.data)
    IN  [i \in 1..n |-> PackageVerdict(m, labels, P, RowOfVerdict(n, i))]

\* the tables handed to predict_flows: 0..MaxMlRows rows over the column
\* list saved at training, which holds the columns the forest was fitted
\* on and so at least one
MlSchemas == { <<"is_tcp">>, <<"is_tcp", "pkts_per_sec">> }

MlTables ==
    { [columns |-> c, data |-> [r \in 1..n |-> [j \in 1..Len(c) |-> r]]] :
        c \in MlSchemas, n \in 0..MaxMlRows }

\* predict_flows(model, X_aligned), in a PacketVision process
PredictFlows ==
    /\ mpc = "idle"
    /\ rrpc = "idle"
    /\ \E m \in Classifiers, X \in MlTables :
         /\ model' = m
         /\ X_aligned' = X
         /\ IF AlignedEmpty(X)
            THEN /\ results' = <<>>
                 /\ UNCHANGED <<proba, y_pred, n_predict, n_predict_proba,
                                ml_raised>>
            ELSE IF PredictRaises(m, X)
            THEN /\ n_predict' = n_predict + 1
                 /\ ml_raised' = TRUE
                 /\ UNCHANGED <<proba, y_pred, n_predict_proba, results>>
            ELSE \E P \in ProbaOutputs(Len(m.classes_), Len(X.data)) :
                 /\ y_pred' = ModelPredict(m, P)
                 /\ proba' = P
                 /\ n_predict' = n_predict + 1
                 /\ n_predict_proba' = n_predict_proba + 1
                 /\ results' = PackageResults(m, X, y_pred', P)
                 /\ UNCHANGED ml_raised
    /\ mpc' = "pv_done"
    /\ UNCHANGED <<aggVars, alignVars, ruleVars>>
    /\ UNCHANGED <<scoreVars, featVars, pipeVars>>
    /\ UNCHANGED <<epVars, ztVars, rrVars>>

-----------------------------------------------------------------------------
(* RedRiver: encode_labels and save_artifacts (ml.py), the API's decoder *)
(* and /predict (api.py)                                                  *)

MaxTrainRows == 3

\* the labels synthetic.py writes, in the order Python's sorted() gives them
RrLabelOrder == <<"benign", "brute_force", "c2_beacon", "port_scan">>

RrLabelRank(label) ==
    CHOOSE k \in 1..Len(RrLabelOrder) : RrLabelOrder[k] = label

\* Series.unique(): the distinct values in order of first appearance
RECURSIVE Unique(_)
Unique(col) ==
    IF col = <<>> THEN <<>>
    ELSE LET rest == Unique(SubSeq(col, 1, Len(col) - 1))
             last == col[Len(col)]
         IN  IF last \in SeqRange(rest) THEN rest ELSE Append(rest, last)

RECURSIVE RrInsert(_, _)
RrInsert(sorted_labels, label) ==
    IF sorted_labels = <<>> THEN <<label>>
    ELSE IF RrLabelRank(label) <= RrLabelRank(Head(sorted_labels))
         THEN <<label>> \o sorted_labels
         ELSE <<Head(sorted_labels)>> \o RrInsert(Tail(sorted_labels), label)

\* (mutant) labels = list(df[LABEL_COLUMN].unique())
SortedLabels_Unsorted(labels) == labels

\* sorted(labels)
RECURSIVE SortedLabels(_)
SortedLabels(labels) ==
    IF labels = <<>> THEN <<>>
    ELSE RrInsert(SortedLabels(Tail(labels)), Head(labels))

\* {label: i for i, label in enumerate(labels)}
Enumerate(labels) ==
    [label \in SeqRange(labels) |->
        (CHOOSE i \in 1..Len(labels) :
            /\ labels[i] = label
            /\ \A j \in (i + 1)..Len(labels) : labels[j] # label) - 1]

\* {i: label for label, i in label_to_int.items()}: items() follows the
\* insertion order of label_to_int, which is the order of labels
InvertItems(l2i, labels) ==
    [i \in {l2i[label] : label \in DOMAIN l2i} |->
        labels[CHOOSE k \in 1..Len(labels) :
                 /\ l2i[labels[k]] = i
                 /\ \A j \in (k + 1)..Len(labels) : l2i[labels[j]] # i]]

encode_labels(col) ==
    LET labels == SortedLabels(Unique(col))
        l2i == Enumerate(labels)
    IN  [label_to_int |-> l2i,
         int_to_label |-> InvertItems(l2i, labels),
         label_encoded |-> [r \in 1..Len(col) |-> l2i[col[r]]]]

\* str() of a class index
Digits == <<"0", "1", "2", "3", "4", "5", "6", "7", "8", "9">>

IntStr(i) == Digits[i + 1]

\* {str(k): v for k, v in label_decoder.items()} over integer keys
StrKeys(d) ==
    [s \in {IntStr(k) : k \in DOMAIN d} |->
        d[CHOOSE k \in DOMAIN d : IntStr(k) = s]]

TrainFeatureCols == <<"duration", "packets">>

\* the payload save_artifacts dumps (lines 96-102); a JSON object keeps
\* string keys and string values as they are
MetadataPayload(feature_cols, label_decoder) ==
    [format |-> "dict",
     feature_columns |-> feature_cols,
     label_decoder |-> StrKeys(label_decoder)]

\* the older file: a bare list of columns
LegacyMetadata ==
    [format |-> "list", feature_columns |-> TrainFeatureCols,
     label_decoder |-> EmptyDict]

\* api.py lines 20-34: the decoder the API keeps; str() of a key that is a
\* string already keeps it
LoadDecoder(meta) ==
    IF meta.format = "dict" THEN meta.label_decoder ELSE EmptyDict

\* (mutant) LABEL_DECODER.get(idx, str(idx)): an integer is never one of the
\* string keys
decode_label_IntKey(decoder, i) == IntStr(i)

\* LABEL_DECODER.get(str(idx), str(idx))
decode_label(decoder, i) ==
    IF IntStr(i) \in DOMAIN decoder THEN decoder[IntStr(i)] ELSE IntStr(i)

\* the label columns of the training tables
TrainColumns ==
    SeqsUpTo(SeqRange(RrLabelOrder), MaxTrainRows) \ {<<>>}

\* df, label_to_int, int_to_label = encode_labels(df), in a RedRiver
\* process
EncodeLabels ==
    /\ rrpc = "idle"
    /\ mpc = "idle"
    /\ \E col \in TrainColumns :
         LET enc == encode_labels(col)
         IN  /\ label_column' = col
             /\ label_to_int' = enc.label_to_int
             /\ int_to_label' = enc.int_to_label
             /\ label_encoded' = enc.label_encoded
    /\ rrpc' = "encoded"
    /\ UNCHANGED <<metadata_file, LABEL_DECODER>>
    /\ UNCHANGED <<aggVars, alignVars, ruleVars>>
    /\ UNCHANGED <<scoreVars, featVars, pipeVars>>
    /\ UNCHANGED <<mlVars, epVars, ztVars>>

\* save_artifacts(model, metrics, feature_cols, int_to_label)
SaveArtifacts ==
    /\ rrpc = "encoded"
    /\ metadata_file' = MetadataPayload(TrainFeatureCols, int_to_label)
    /\ rrpc' = "saved"
    /\ UNCHANGED <<label_column, label_to_int, int_to_label, label_encoded,
                   LABEL_DECODER>>
    /\ UNCHANGED <<aggVars, alignVars, ruleVars>>
    /\ UNCHANGED <<scoreVars, featVars, pipeVars>>
    /\ UNCHANGED <<mlVars, epVars, ztVars>>

\* the API module is imported: it reads the metadata file that is on disk,
\* the older one when no training has run
ApiLoad ==
    /\ rrpc \in {"idle", "saved"}
    /\ mpc = "idle"
    /\ LABEL_DECODER' = LoadDecoder(metadata_file)
    /\ rrpc' = "loaded"
    /\ UNCHANGED <<label_column, label_to_int, int_to_label, label_encoded,
                   metadata_file>>
    /\ UNCHANGED <<aggVars, alignVars, ruleVars>>
    /\ UNCHANGED <<scoreVars, featVars, pipeVars>>
    /\ UNCHANGED <<mlVars, epVars, ztVars>>

\* MODEL.classes_: the integer codes the forest was fitted on, those of
\* label_encoded; three codes for the model shipped with the older file
RrModelClasses ==
    IF label_column = <<>> THEN <<0, 1, 2>>
    ELSE [i \in 1..Cardinality(DOMAIN int_to_label) |-> i - 1]

\* list.index: the first position holding the value
IndexOf(s, v) == CHOOSE i \in 1..Len(s) : s[i] = v /\ \A j \in 1..(i - 1) : s[j] # v

\* the "prediction" object of RedRiver's /predict (lines 150-176)
RedRiverVerdict(decoder, CLASS_INDEXES, raw_pred, prob_arr) ==
    LET pred_idx == raw_pred
        pred_pos == IndexOf(CLASS_INDEXES, pred_idx)
    IN  [class_label |-> decode_label(decoder, pred_idx),
         class_index |-> pred_idx,
         confidence |-> prob_arr[pred_pos],
         probs |-> ZipDict([k \in 1..Len(CLASS_INDEXES) |->
                              decode_label(decoder, CLASS_INDEXES[k])],
                           prob_arr)]

\* POST /predict of RedRiver: one flow, one row
RedRiverPredict ==
    /\ rrpc = "loaded"
    /\ mpc = "idle"
    /\ LET m == [classes_ |-> RrModelClasses,
                 n_features_in_ |-> Len(TrainFeatureCols)]
       IN  \E P \in ProbaOutputs(Len(m.classes_), 1) :
             /\ model' = m
             /\ X_aligned' = [columns |-> TrainFeatureCols,
                              data |-> << [j \in 1..Len(TrainFeatureCols) |-> 1] >>]
             /\ y_pred' = ModelPredict(m, P)
             /\ proba' = P
             /\ n_predict' = n_predict + 1
             /\ n_predict_proba' = n_predict_proba + 1
             /\ results' = << RedRiverVerdict(LABEL_DECODER, m.classes_,
                                              y_pred'[1], P[1]) >>
    /\ mpc' = "rr_done"
    /\ UNCHANGED ml_raised
    /\ UNCHANGED <<aggVars, alignVars, ruleVars>>
    /\ UNCHANGED <<scoreVars, featVars, pipeVars>>
    /\ UNCHANGED <<epVars, ztVars, rrVars>>

-----------------------------------------------------------------------------
(* SentinelFlow /predict (api.py) *)

SfClasses == <<"dos", "normal", "scan">>

SfFeatureCols == <<"bytes", "duration">>

\* the response of SentinelFlow's /predict (lines 126-133)
SentinelFlowVerdict(pred, proba_row) ==
    [prediction |-> pred, confidence |-> MaxProb(proba_row)]

\* POST /predict of SentinelFlow: one event, one row, in a SentinelFlow
\* process
SentinelFlowPredict ==
    /\ mpc = "idle"
    /\ rrpc = "idle"
    /\ LET m == [classes_ |-> SfClasses, n_features_in_ |-> Len(SfFeatureCols)]
       IN  \E P \in ProbaOutputs(Len(m.classes_), 1) :
             /\ model' = m
             /\ X_aligned' = [columns |-> SfFeatureCols,
                              data |-> << [j \in 1..Len(SfFeatureCols) |-> 1] >>]
             /\ y_pred' = ModelPredict(m, P)
             /\ proba' = P
             /\ n_predict' = n_predict + 1
             /\ n_predict_proba' = n_predict_proba + 1
             /\ results' = << SentinelFlowVerdict(y_pred'[1], P[1]) >>
    /\ mpc' = "sf_done"
    /\ UNCHANGED ml_raised
    /\ UNCHANGED <<aggVars, alignVars, ruleVars>>
    /\ UNCHANGED <<scoreVars, featVars, pipeVars>>
    /\ UNCHANGED <<epVars, ztVars, rrVars>>

-----------------------------------------------------------------------------
(* analyze_pcap with the model artifacts on disk (analyzer.py), behind the *)
(* /analyze-pcap endpoint (api.py)                                        *)

NoArtifacts ==
    [available |-> FALSE, model |-> NoModel, feature_columns |-> <<>>]

NoResponse == [status |-> 0]

\* a call either raises or returns a value
Raised == [raised |-> TRUE]

Returned(v) == [raised |-> FALSE, value |-> v]

\* the features frame as the table the alignment layer works on
FrameToTable(df) ==
    [columns |-> df.columns,
     data |-> [r \in 1..Len(df.rows) |->
                 [j \in 1..Len(df.columns) |-> df.rows[r][df.columns[j]]]]]

\* _summarize_ml_predictions (lines 46-65)
summarize_ml_predictions(flow_predictions) ==
    [num_flows_scored |-> Len(flow_predictions),
     label_counts |->
        [label \in {flow_predictions[i].predicted_label :
                        i \in 1..Len(flow_predictions)} |->
            Cardinality({i \in 1..Len(flow_predictions) :
                            flow_predictions[i].predicted_label = label})]]

\* predict_flows as one call: the empty list, the classifier's error, or
\* the verdicts
predict_flows(m, X, P) ==
    IF AlignedEmpty(X) THEN Returned(<<>>)
    ELSE IF PredictRaises(m, X) THEN Raised
    ELSE Returned(PackageResults(m, X, ModelPredict(m, P), P))

\* (mutant) try: ... = predict_flows(...) except Exception: pass
ScoreAligned_Swallow(m, X, P) ==
    LET r == predict_flows(m, X, P)
    IN  IF r.raised THEN Returned(<<>>) ELSE r

\* ml_flow_predictions = predict_flows(model, X_aligned) (line 116): no
\* handler around the call
ScoreAligned(m, X, P) == predict_flows(m, X, P)

\* lines 105-120: the ML stage; P is what the classifier answers for the
\* rows when it is asked
MlStage(features_df, art, P) ==
    IF ~art.available \/ FrameEmpty(features_df) THEN Returned(NoMlResult)
    ELSE LET X == FrameToTable(features_df)
         IN  IF AlignRaises(X, art.feature_columns) THEN Raised
             ELSE LET scored ==
                        ScoreAligned(art.model,
                                     align_features_for_inference(
                                        X, art.feature_columns), P)
                  IN  IF scored.raised THEN Raised
                      ELSE Returned(
                             [summary |-> summarize_ml_predictions(scored.value),
                              per_flow |-> scored.value])

\* analyze_pcap as one call on a capture file
analyze_pcap_with_ml(file, art, P) ==
    IF ~file.readable THEN Raised
    ELSE LET flows_table == parse_pcap_to_flows(file.packets)
             rule_result == analyze_flows_with_rules(RuleView(flows_table))
             ml == MlStage(build_features(flows_table), art, P)
         IN  IF ml.raised THEN Raised
             ELSE Returned([num_flows |-> Len(flows_table.rows),
                            rule_based |-> rule_result,
                            ml_based |-> ml.value])

\* analyze_pcap_endpoint (lines 58-101)
analyze_pcap_endpoint(file, saved, art, P) ==
    IF ~saved
    THEN [status |-> 500, detail |-> "Failed to save uploaded file"]
    ELSE LET r == analyze_pcap_with_ml(file, art, P)
         IN  IF r.raised THEN [status |-> 500, detail |-> "Analysis failed"]
             ELSE [status |-> 200, body |-> r.value]

\* the column lists a feature_columns.json may hold
ArtifactSchemas == { <<"is_tcp">>, <<"is_tcp", "pkts_per_sec">> }

ArtifactSets ==
    {NoArtifacts} \cup
    [available : {TRUE}, model : Classifiers, feature_columns : ArtifactSchemas]

Uploads ==
    [readable : BOOLEAN, packets : SeqsUpTo(PipePackets, MaxPipePackets)]

\* the number of flows of a capture
NumFlows(file) ==
    IF file.readable THEN Len(parse_pcap_to_flows(file.packets).rows) ELSE 0

\* what the classifier may answer for the capture's flows; nothing when
\* there is no classifier
AnswersFor(file, art) ==
    IF art.available
    THEN ProbaOutputs(Len(art.model.classes_), NumFlows(file))
    ELSE {<<>>}

\* POST /analyze-pcap
AnalyzePcapEndpoint ==
    /\ epc = "idle"
    /\ \E file \in Uploads, art \in ArtifactSets, saved \in BOOLEAN :
         \E P \in AnswersFor(file, art) :
            /\ upload' = file
            /\ artifacts' = art
            /\ save_ok' = saved
            /\ response' = analyze_pcap_endpoint(file, saved, art, P)
    /\ epc' = "responded"
    /\ UNCHANGED <<aggVars, alignVars, ruleVars>>
    /\ UNCHANGED <<scoreVars, featVars, pipeVars>>
    /\ UNCHANGED <<mlVars, ztVars, rrVars>>

-----------------------------------------------------------------------------
(* ZeroTrace: extract_features (features.py) *)

MaxLabelRows == 2

MODEL_CLASSES ==
    <<"benign", "infostealer_like", "ransomware_like", "injected_loader">>

\* A snapshot is what extract_features reads of it: whether it holds every
\* feature column, and the label column with its dtype.  A float64 label is
\* counted in halves (3 is 1.5); an object label is a string.
NoSnapshot == [has_features |-> TRUE, dtype |-> "object", label |-> <<>>]

\* a call that raised ValueError, with the values its message lists
RaisedWith(error, values) ==
    [raised |-> TRUE, error |-> error, values |-> values]

\* {name: idx for idx, name in enumerate(MODEL_CLASSES)}
family_to_label == Enumerate(MODEL_CLASSES)

\* raw_labels[labels.isna()].unique(): the labels the mapping does not
\* know, in order of first appearance
UnknownLabels(raw_labels) ==
    Unique(SelectSeq(raw_labels, LAMBDA v : v \notin DOMAIN family_to_label))

\* .astype(int) of one numeric label: an int64 as it is, a float64 cut
\* towards zero
AsTypeInt(dtype, v) == IF dtype = "int64" THEN v ELSE v \div 2

\* else: labels = raw_labels.astype(int) (lines 79-81)
NumericLabels(df) ==
    Returned([r \in 1..Len(df.label) |-> AsTypeInt(df.dtype, df.label[r])])

\* extract_features (lines 48-85): the label column of the returned table,
\* or the error raised
extract_features(df) ==
    IF ~df.has_features
    THEN RaisedWith("missing required feature columns", <<>>)
    ELSE IF df.dtype = "object"
    THEN LET bad_values == UnknownLabels(df.label)
         IN  IF bad_values # <<>>
             THEN RaisedWith("unknown label values", bad_values)
             ELSE Returned([r \in 1..Len(df.label) |->
                               family_to_label[df.label[r]]])
    ELSE NumericLabels(df)

\* the label columns of the snapshots: strings, integers, and floats in
\* halves
ObjectLabels == {"benign", "ransomware_like", "injected_loader", "trojan", "Benign"}

IntLabels == {0 - 1, 0, 3, 4, 7}

FloatLabels == {2, 3, 7, 8}

Snapshots ==
    [has_features : BOOLEAN, dtype : {"object"},
     label : SeqsUpTo(ObjectLabels, MaxLabelRows) \ {<<>>}]
    \cup [has_features : {TRUE}, dtype : {"int64"},
          label : SeqsUpTo(IntLabels, MaxLabelRows) \ {<<>>}]
    \cup [has_features : {TRUE}, dtype : {"float64"},
          label : SeqsUpTo(FloatLabels, MaxLabelRows) \ {<<>>}]

\* features_df = extract_features(df)
ExtractFeatures ==
    /\ zpc = "idle"
    /\ \E df \in Snapshots :
         /\ snapshot_df' = df
         /\ extract_result' = extract_features(df)
    /\ zpc' = "extracted"
    /\ UNCHANGED <<cacheVars, sampleVars>>
    /\ UNCHANGED <<aggVars, alignVars, ruleVars>>
    /\ UNCHANGED <<scoreVars, featVars, pipeVars>>
    /\ UNCHANGED <<mlVars, epVars, rrVars>>

-----------------------------------------------------------------------------
(* ZeroTrace: load_model (pipeline.py), called from several threads *)

MaxLoadCalls == 2

Callers == {"t1", "t2"}

\* _MODEL = None (line 24); a loaded object is named by the read that made it
NoObject == 0

ModelFileStates == {"missing", "valid", "corrupt"}

\* the model file is written, replaced or removed outside the process
SetModelFile ==
    /\ \E f \in ModelFileStates \ {model_file} : model_file' = f
    /\ UNCHANGED <<_MODEL, disk_reads, lpc, load_calls, obtained>>
    /\ UNCHANGED <<extractVars, sampleVars, zpc>>
    /\ UNCHANGED <<aggVars, alignVars, ruleVars>>
    /\ UNCHANGED <<scoreVars, featVars, pipeVars>>
    /\ UNCHANGED <<mlVars, epVars, rrVars>>

\* joblib.load(model_path) and the assignment to _MODEL (line 45), then
\* return _MODEL (line 46): what it leaves in <<_MODEL, disk_reads, obtained>>
ReadAndCache ==
    CASE model_file = "valid" ->
            <<disk_reads + 1, disk_reads + 1, obtained \cup {disk_reads + 1}>>
      [] model_file = "corrupt" -> <<_MODEL, disk_reads + 1, obtained>>
      [] model_file = "missing" -> <<_MODEL, disk_reads, obtained>>

\* load_model up to the load (lines 38-43): return the cached object, raise
\* FileNotFoundError, or go on to read the file
LoadCheck(c) ==
    /\ lpc[c] = "idle"
    /\ load_calls[c] < MaxLoadCalls
    /\ load_calls' = [load_calls EXCEPT ![c] = @ + 1]
    /\ IF _MODEL # NoObject
       THEN /\ obtained' = obtained \cup {_MODEL}
            /\ UNCHANGED <<_MODEL, disk_reads, lpc>>
       ELSE IF model_file = "missing"
       THEN UNCHANGED <<_MODEL, disk_reads, lpc, obtained>>
       ELSE /\ lpc' = [lpc EXCEPT ![c] = "loading"]
            /\ UNCHANGED <<_MODEL, disk_reads, obtained>>
    /\ UNCHANGED <<model_file, extractVars, sampleVars, zpc>>
    /\ UNCHANGED <<aggVars, alignVars, ruleVars>>
    /\ UNCHANGED <<scoreVars, featVars, pipeVars>>
    /\ UNCHANGED <<mlVars, epVars, rrVars>>

\* load_model from the load on (lines 45-46)
LoadRead(c) ==
    /\ lpc[c] = "loading"
    /\ _MODEL' = ReadAndCache[1]
    /\ disk_reads' = ReadAndCache[2]
    /\ obtained' = ReadAndCache[3]
    /\ lpc' = [lpc EXCEPT ![c] = "idle"]
    /\ UNCHANGED <<load_calls, model_file, extractVars, sampleVars, zpc>>
    /\ UNCHANGED <<aggVars, alignVars, ruleVars>>
    /\ UNCHANGED <<scoreVars, featVars, pipeVars>>
    /\ UNCHANGED <<mlVars, epVars, rrVars>>

-----------------------------------------------------------------------------
(* ZeroTrace: the /predict endpoint (api.py), predict_sample and *)
(* build_feature_frame (pipeline.py)                             *)

MaxSetFields == 2

\* config.py lines 26-39
FEATURE_COLUMNS ==
    <<"pid", "ppid", "num_modules", "num_unsigned_modules", "num_rwx_regions",
      "avg_entropy", "has_network_connection", "num_connections",
      "listening_ports", "high_entropy_strings", "cpu_usage",
      "memory_usage_mb">>

\* the fields of the request model, api.py lines 38-50
ProcessSampleFields ==
    {"pid", "ppid", "num_modules", "num_unsigned_modules", "num_rx_regions",
     "num_rwx_regions", "avg_entropy", "has_network_connection",
     "num_connections", "listening_ports", "high_entropy_strings",
     "cpu_usage_pct", "memory_usage_mb"}

\* _FEATURE_ORDER = FEATURE_COLUMNS (line 25)
FEATURE_ORDER == FEATURE_COLUMNS

\* for col in _FEATURE_ORDER: if col not in df.columns (lines 63-64)
MissingColumns(sample) ==
    {FEATURE_ORDER[i] : i \in 1..Len(FEATURE_ORDER)} \ DOMAIN sample

\* df[col] = 0.0 for each of them (line 65)
FillMissing(sample) ==
    [col \in DOMAIN sample \cup MissingColumns(sample) |->
        IF col \in DOMAIN sample THEN sample[col] ELSE 0]

\* build_feature_frame (lines 49-74): the filled frame cut down to
\* _FEATURE_ORDER (line 68); the values are numbers already, which
\* pd.to_numeric(...).fillna(0.0) keeps (lines 71-72)
build_feature_frame(sample) ==
    [columns |-> FEATURE_ORDER,
     row |-> [i \in 1..Len(FEATURE_ORDER) |->
                 FillMissing(sample)[FEATURE_ORDER[i]]]]

\* predict_sample from the classifier's answer on (lines 98-114)
SampleVerdict(proba_row) ==
    LET class_idx == ArgMax(proba_row) - 1
    IN  [class_index |-> class_idx,
         class_label |-> MODEL_CLASSES[class_idx + 1],
         confidence  |-> proba_row[class_idx + 1],
         probs       |-> ZipDict(MODEL_CLASSES, proba_row)]

\* the request bodies: every field present (each is required), all at 1
\* but for at most MaxSetFields of them at 5
RequestSamples ==
    {s \in [ProcessSampleFields -> {1, 5}] :
        Cardinality({f \in ProcessSampleFields : s[f] = 5}) <= MaxSetFields}

\* POST /predict (api.py lines 65-77): predict_sample(sample.dict()), with
\* load_model run to its end by the one request being served
PredictEndpoint ==
    /\ zpc = "idle"
    /\ \A c \in Callers : lpc[c] = "idle"
    /\ \E sample \in RequestSamples :
         /\ request_sample' = sample
         /\ IF _MODEL # NoObject
            THEN UNCHANGED <<_MODEL, disk_reads, obtained>>
            ELSE IF model_file = "missing"
            THEN UNCHANGED <<_MODEL, disk_reads, obtained>>
            ELSE /\ _MODEL' = ReadAndCache[1]
                 /\ disk_reads' = ReadAndCache[2]
                 /\ obtained' = ReadAndCache[3]
         /\ IF _MODEL' = NoObject
            THEN /\ prediction' = Raised
                 /\ UNCHANGED <<X_frame, filled_cols>>
            ELSE /\ X_frame' = build_feature_frame(sample)
                 /\ filled_cols' = MissingColumns(sample)
                 /\ \E proba_row \in ProbRows(Len(MODEL_CLASSES)) :
                       prediction' = Returned(SampleVerdict(proba_row))
    /\ zpc' = "predicted"
    /\ UNCHANGED <<model_file, lpc, load_calls, extractVars>>
    /\ UNCHANGED <<aggVars, alignVars, ruleVars>>
    /\ UNCHANGED <<scoreVars, featVars, pipeVars>>
    /\ UNCHANGED <<mlVars, epVars, rrVars>>

-----------------------------------------------------------------------------
(* Specifications *)

IdleMlVars ==
    /\ model = NoModel
    /\ X_aligned = EmptyTable
    /\ proba = <<>>
    /\ y_pred = <<>>
    /\ n_predict = 0
    /\ n_predict_proba = 0
    /\ results = <<>>
    /\ ml_raised = FALSE
    /\ mpc = "idle"

IdleEpVars ==
    /\ upload = [readable |-> TRUE, packets |-> <<>>]
    /\ artifacts = NoArtifacts
    /\ save_ok = TRUE
    /\ response = NoResponse
    /\ epc = "idle"

IdleZtVars ==
    /\ snapshot_df = NoSnapshot
    /\ extract_result = Returned(<<>>)
    /\ _MODEL = NoObject
    /\ model_file = "valid"
    /\ disk_reads = 0
    /\ lpc = [c \in Callers |-> "idle"]
    /\ load_calls = [c \in Callers |-> 0]
    /\ obtained = {}
    /\ request_sample = EmptyDict
    /\ X_frame = [columns |-> <<>>, row |-> <<>>]
    /\ filled_cols = {}
    /\ prediction = Returned(<<>>)
    /\ zpc = "idle"

IdleRrVars ==
    /\ label_column = <<>>
    /\ label_to_int = EmptyDict
    /\ int_to_label = EmptyDict
    /\ label_encoded = <<>>
    /\ metadata_file = LegacyMetadata
    /\ LABEL_DECODER = EmptyDict
    /\ rrpc = "idle"

InitAgg ==
    /\ InitAggVars /\ IdleAlignVars /\ IdleRuleVars
    /\ IdleScoreVars /\ IdleFeatVars /\ IdlePipeVars
    /\ IdleMlVars /\ IdleEpVars /\ IdleZtVars /\ IdleRrVars

SpecAgg == InitAgg /\ [][NextAgg]_vars

InitAlign ==
    /\ IdleAggVars /\ InitAlignVars /\ IdleRuleVars
    /\ IdleScoreVars /\ IdleFeatVars /\ IdlePipeVars
    /\ IdleMlVars /\ IdleEpVars /\ IdleZtVars /\ IdleRrVars

NextAlign == Align

SpecAlign == InitAlign /\ [][NextAlign]_vars

InitRules ==
    /\ IdleAggVars /\ IdleAlignVars /\ IdleRuleVars
    /\ IdleScoreVars /\ IdleFeatVars /\ IdlePipeVars
    /\ IdleMlVars /\ IdleEpVars /\ IdleZtVars /\ IdleRrVars

NextRules ==
    \/ LoadFlows
    \/ AppendFlow
    \/ AnalyzeFlows
    \/ AnalyzePolicy

SpecRules == InitRules /\ [][NextRules]_vars

\* the aggregator on the captures that are compared with their
\* rearrangements
InitPerm ==
    /\ InitPermVars /\ IdleAlignVars /\ IdleRuleVars
    /\ IdleScoreVars /\ IdleFeatVars /\ IdlePipeVars
    /\ IdleMlVars /\ IdleEpVars /\ IdleZtVars /\ IdleRrVars

SpecPerm == InitPerm /\ [][NextAgg]_vars

\* the rule engine on tables that lack columns
NextMissing ==
    \/ LoadPartialFlows
    \/ AnalyzeFlows

SpecMissing == InitRules /\ [][NextMissing]_vars

\* the rule engine on scan-like and bulk traffic
NextScenario ==
    \/ LoadScenarioFlows
    \/ AppendFlow
    \/ AnalyzeFlows

SpecScenario == InitRules /\ [][NextScenario]_vars

\* the scoring steps of the three services
NextScoring ==
    \/ PredictFlows
    \/ SentinelFlowPredict
    \/ EncodeLabels
    \/ SaveArtifacts
    \/ ApiLoad
    \/ RedRiverPredict

SpecScoring == InitRules /\ [][NextScoring]_vars

\* RedRiver training followed by the API start
NextRedRiver ==
    \/ EncodeLabels
    \/ SaveArtifacts
    \/ ApiLoad

SpecRedRiver == InitRules /\ [][NextRedRiver]_vars

\* the /analyze-pcap endpoint
NextEndpoint == AnalyzePcapEndpoint

SpecEndpoint == InitRules /\ [][NextEndpoint]_vars

\* ZeroTrace's feature extraction
NextExtract == ExtractFeatures

SpecExtract == InitRules /\ [][NextExtract]_vars

\* ZeroTrace's model cache under overlapping calls
NextCache ==
    \/ SetModelFile
    \/ \E c \in Callers : LoadCheck(c)
    \/ \E c \in Callers : LoadRead(c)

SpecCache == InitRules /\ [][NextCache]_vars

\* ZeroTrace's /predict endpoint
NextSample == SetModelFile \/ PredictEndpoint

SpecSample == InitRules /\ [][NextSample]_vars

NextScore ==
    \/ ScoreToLevel
    \/ ScoreFindings

SpecScore == InitRules /\ [][NextScore]_vars

InitFeat ==
    /\ IdleAggVars /\ IdleAlignVars /\ IdleRuleVars
    /\ IdleScoreVars /\ InitFeatVars /\ IdlePipeVars
    /\ IdleMlVars /\ IdleEpVars /\ IdleZtVars /\ IdleRrVars

NextFeat == BuildFeatures

SpecFeat == InitFeat /\ [][NextFeat]_vars

InitPipe ==
    /\ IdleAggVars /\ IdleAlignVars /\ IdleRuleVars
    /\ IdleScoreVars /\ IdleFeatVars /\ InitPipeVars
    /\ IdleMlVars /\ IdleEpVars /\ IdleZtVars /\ IdleRrVars

NextPipe ==
    \E i \in Invocations :
        \/ PipeLoop(i)
        \/ PipeParsed(i)
        \/ PipeRules(i)
        \/ PipeFeatures(i)

SpecPipe == InitPipe /\ [][NextPipe]_vars

-----------------------------------------------------------------------------
(* Properties of the flow aggregator *)

\* What the claims speak of, read off the packet list alone.
Recognized(i) == packets[i].ip /\ packets[i].l4 \in {"TCP", "UDP"}

KeyAt(i) ==
    <<packets[i].src, packets[i].dst, packets[i].sport, packets[i].dport,
      packets[i].l4>>

\* the recognized packets with key k among the first n packets
IdxOfKey(k, n) == {i \in 1..n : Recognized(i) /\ KeyAt(i) = k}

KeysSeen(n) == {KeyAt(i) : i \in {j \in 1..n : Recognized(j)}}

MinOf(S) == CHOOSE x \in S : \A y \in S : x <= y
MaxOf(S) == CHOOSE x \in S : \A y \in S : x >= y

RECURSIVE SumLens(_)
SumLens(S) ==
    IF S = {} THEN 0
    ELSE LET i == CHOOSE x \in S : TRUE
         IN  packets[i].len + SumLens(S \ {i})

RowKey(row) ==
    <<row.src_ip, row.dst_ip, row.src_port, row.dst_port, row.protocol>>

RowIdx == 1..Len(flows_df.rows)

\* C1: the returned table has exactly one row per distinct 5-tuple among
\* the packets with an IP layer and a TCP or UDP layer; the row's
\* packet_count is the number of those packets and its total_bytes the sum
\* of their lengths, wherever in the capture they appear.
C1_OneRowPerKey ==
    pc = "done" =>
        LET n == Len(packets)
        IN  /\ Len(flows_df.rows) = Cardinality(KeysSeen(n))
            /\ \A k \in KeysSeen(n) :
                 Cardinality({r \in RowIdx : RowKey(flows_df.rows[r]) = k}) = 1
            /\ \A r \in RowIdx :
                 LET row == flows_df.rows[r]
                 IN  /\ RowKey(row) \in KeysSeen(n)
                     /\ row.packet_count = Cardinality(IdxOfKey(RowKey(row), n))
                     /\ row.total_bytes = SumLens(IdxOfKey(RowKey(row), n))

\* a flow whose key reappears after a packet of another flow, still one row
C1_Witness ==
    /\ pc = "done"
    /\ Len(flows_df.rows) = 2
    /\ \E i, j, l \in 1..Len(packets) :
         /\ i < j /\ j < l
         /\ Recognized(i) /\ Recognized(j) /\ Recognized(l)
         /\ KeyAt(i) = KeyAt(l) /\ KeyAt(i) # KeyAt(j)
         /\ \E r \in RowIdx : /\ RowKey(flows_df.rows[r]) = KeyAt(i)
                              /\ flows_df.rows[r].packet_count = 2

\* C4: at every point of the loop a flow's start_time is the timestamp of
\* the first packet seen with its key and its end_time the timestamp of the
\* last one seen (last write wins, not the maximum); the emitted row carries
\* these two values.
C4_FirstAndLastWrite ==
    /\ pc \in {"loop", "done"} =>
         /\ DOMAIN first_ts = KeysSeen(idx - 1)
         /\ DOMAIN last_ts = KeysSeen(idx - 1)
         /\ \A k \in KeysSeen(idx - 1) :
              /\ first_ts[k] = packets[MinOf(IdxOfKey(k, idx - 1))].time
              /\ last_ts[k] = packets[MaxOf(IdxOfKey(k, idx - 1))].time
    /\ pc = "done" =>
         \A r \in RowIdx :
            LET row == flows_df.rows[r]
                seen == IdxOfKey(RowKey(row), Len(packets))
            IN  /\ row.start_time = packets[MinOf(seen)].time
                /\ row.end_time = packets[MaxOf(seen)].time

\* an emitted end_time smaller than an earlier timestamp of the same flow
C4_Witness ==
    /\ pc = "done"
    /\ \E r \in RowIdx :
         LET row == flows_df.rows[r]
             seen == IdxOfKey(RowKey(row), Len(packets))
         IN  /\ Cardinality(seen) >= 2
             /\ \E i \in seen : packets[i].time > row.end_time
             /\ row.end_time = packets[MaxOf(seen)].time

\* C5 (as stated): across the updates of one flow's record, in arrival
\* order, end_time never decreases.
C5_EndTimeNeverDecreases ==
    [][\A k \in DOMAIN last_ts : last_ts'[k] >= last_ts[k]]_vars

\* C5 (amended): every update sets the flow's end_time to the timestamp of
\* the packet just processed and leaves the other flows' end_time alone, so
\* end_time decreases exactly when that packet's timestamp is smaller than
\* the flow's previous end_time.
C5_EndTimeFollowsArrival ==
    [][(InLoop /\ Recognized(idx)) =>
          LET k == KeyAt(idx)
              t == packets[idx].time
          IN  /\ last_ts'[k] = t
              /\ \A o \in DOMAIN last_ts :
                   /\ o # k => last_ts'[o] = last_ts[o]
                   /\ (last_ts'[o] < last_ts[o]) <=> (o = k /\ t < last_ts[o])
      ]_vars

\* a record whose end_time has just gone down
C5_Witness ==
    /\ pc = "loop"
    /\ \E k \in DOMAIN last_ts :
         LET seen == IdxOfKey(k, idx - 1)
         IN  /\ Cardinality(seen) >= 2
             /\ \E i \in seen :
                  /\ i = MaxOf(seen \ {MaxOf(seen)})
                  /\ packets[i].time > packets[MaxOf(seen)].time
             /\ last_ts[k] = packets[MaxOf(seen)].time

-----------------------------------------------------------------------------
(* Properties of the alignment layer *)

InputCols == SeqRange(X_new.columns)
SchemaCols == SeqRange(feature_columns)

\* the position of label c among the input's (distinct) column labels
InputPos(c) == CHOOSE i \in 1..Len(X_new.columns) : X_new.columns[i] = c

\* C2: whatever the input table and the schema, the call returns without
\* raising and the returned column list is the schema, verbatim and in
\* order; no input column outside the schema survives.
C2_ColumnsAreSchema ==
    apc = "done" =>
        /\ ~align_raised
        /\ X_out.columns = feature_columns
        /\ \A c \in InputCols \ SchemaCols : c \notin SeqRange(X_out.columns)

\* an input with no rows, a column outside the schema and a schema column
\* it lacks
C2_Witness ==
    /\ apc = "done"
    /\ X_new.data = <<>>
    /\ InputCols \ SchemaCols # {}
    /\ SchemaCols \ InputCols # {}
    /\ SchemaCols \cap InputCols # {}
    /\ X_out.columns = feature_columns

\* C3: the rows of the input are kept, in number and order; in every row a
\* schema column absent from the input holds 0 and a schema column present
\* in the input holds the input's value of that row.
C3_ValuesPreserved ==
    (apc = "done" /\ ~align_raised) =>
        /\ Len(X_out.data) = Len(X_new.data)
        /\ \A r \in 1..Len(X_new.data) :
             /\ Len(X_out.data[r]) = Len(feature_columns)
             /\ \A j \in 1..Len(feature_columns) :
                  X_out.data[r][j] =
                     IF feature_columns[j] \in InputCols
                     THEN X_new.data[r][InputPos(feature_columns[j])]
                     ELSE 0

\* two rows that differ in a kept column, next to a zero-filled column
C3_Witness ==
    /\ apc = "done"
    /\ Len(X_new.data) = 2
    /\ \E j1, j2 \in 1..Len(feature_columns) :
         /\ feature_columns[j1] \notin InputCols
         /\ feature_columns[j2] \in InputCols
         /\ X_out.data[1][j1] = 0 /\ X_out.data[2][j1] = 0
         /\ X_out.data[1][j2] # X_out.data[2][j2]
         /\ X_out.data[1][j2] = X_new.data[1][InputPos(feature_columns[j2])]

-----------------------------------------------------------------------------
(* Properties of the rule engines *)

FlowIdx == 1..Len(flows.rows)

\* the distinct destination ports among the flows of source s
PortsOf(s) ==
    {flows.rows[i].dst_port : i \in {j \in FlowIdx : flows.rows[j].src_ip = s}}

Offenders ==
    {s \in {flows.rows[i].src_ip : i \in FlowIdx} : Cardinality(PortsOf(s)) >= 50}

\* the positions in the returned findings list that carry rule_id id
FindingsOf(id) ==
    {i \in 1..Len(report.findings) : report.findings[i].rule_id = id}

RECURSIVE SumOver(_, _)
SumOver(S, col) ==
    IF S = {} THEN 0
    ELSE LET i == CHOOSE x \in S : TRUE
         IN  flows.rows[i][col] + SumOver(S \ {i}, col)

AdminIdx == {i \in FlowIdx : flows.rows[i].dst_port \in {22, 3389, 445, 139}}
DnsIdx == {i \in FlowIdx : flows.rows[i].dst_port = 53}

\* C7: the port-scan detector emits a finding iff some source has 50 or
\* more distinct destination ports; it emits one finding however many
\* sources offend, of severity "high", whose flows_affected counts the rows
\* of the offending sources and no others.
C7_PortScan ==
    rpc = "analyzed" =>
        /\ (FindingsOf("PV01_PORT_SCAN") # {}) <=> (Offenders # {})
        /\ Cardinality(FindingsOf("PV01_PORT_SCAN")) <= 1
        /\ LET offending == Offenders
           IN  \A i \in FindingsOf("PV01_PORT_SCAN") :
                 /\ report.findings[i].severity = "high"
                 /\ report.findings[i].flows_affected =
                      Cardinality({j \in FlowIdx :
                                     flows.rows[j].src_ip \in offending})

\* two offending sources, one with a repeated-port row, beside flows of a
\* source that does not offend
C7_Witness ==
    /\ rpc = "analyzed"
    /\ Cardinality(Offenders) = 2
    /\ \E s \in Offenders :
         Cardinality({j \in FlowIdx : flows.rows[j].src_ip = s})
            > Cardinality(PortsOf(s))
    /\ \E j \in FlowIdx : flows.rows[j].src_ip \notin Offenders
    /\ Cardinality(FindingsOf("PV01_PORT_SCAN")) = 1
    /\ \E i \in FindingsOf("PV01_PORT_SCAN") :
         report.findings[i].flows_affected = 101

\* C8: over the flows to ports 22, 3389, 445 and 139, the bruteforce
\* detector emits a finding iff their number is >= 30 or their packets sum
\* to >= 1000, and every finding it emits has severity "high", never
\* "medium".
C8_Bruteforce ==
    rpc = "analyzed" =>
        /\ (FindingsOf("PV02_BRUTEFORCE_LIKE") # {})
             <=> \/ Cardinality(AdminIdx) >= 30
                 \/ SumOver(AdminIdx, "packet_count") >= 1000
        /\ \A i \in FindingsOf("PV02_BRUTEFORCE_LIKE") :
             /\ report.findings[i].severity = "high"
             /\ report.findings[i].severity # "medium"

\* a finding raised by the packet sum alone, with fewer than 30 flows
C8_Witness ==
    /\ rpc = "analyzed"
    /\ Cardinality(AdminIdx) \in 2..29
    /\ SumOver(AdminIdx, "packet_count") = 1000
    /\ \E i \in FindingsOf("PV02_BRUTEFORCE_LIKE") :
         report.findings[i].severity = "high"

\* C9: over the flows to port 53, the DNS detector emits a finding iff the
\* packets sum to >= 500 or the bytes to >= 500000; its severity is "high"
\* iff the packets sum to >= 1000 or the bytes to >= 1000000 and "medium"
\* otherwise; flows_affected is the number of port-53 flows.
C9_DnsTunnel ==
    rpc = "analyzed" =>
        LET pkts == SumOver(DnsIdx, "packet_count")
            bytes == SumOver(DnsIdx, "total_bytes")
        IN  /\ (FindingsOf("PV03_DNS_TUNNEL_LIKE") # {})
                 <=> (pkts >= 500 \/ bytes >= 500000)
            /\ \A i \in FindingsOf("PV03_DNS_TUNNEL_LIKE") :
                 /\ report.findings[i].severity =
                      (IF pkts >= 1000 \/ bytes >= 1000000
                       THEN "high" ELSE "medium")
                 /\ report.findings[i].flows_affected = Cardinality(DnsIdx)

\* a "high" finding over two port-53 flows, raised by the bytes alone
C9_Witness ==
    /\ rpc = "analyzed"
    /\ Cardinality(DnsIdx) = 2
    /\ SumOver(DnsIdx, "packet_count") < 500
    /\ SumOver(DnsIdx, "total_bytes") = 1000000
    /\ \E i \in FindingsOf("PV03_DNS_TUNNEL_LIKE") :
         /\ report.findings[i].severity = "high"
         /\ report.findings[i].flows_affected = 2

\* the weights the claim names; a severity outside them has none
ClaimedWeight(severity) ==
    CASE severity = "low" -> 1
      [] severity = "medium" -> 2
      [] severity = "high" -> 3
      [] severity = "critical" -> 4

RECURSIVE WeightSum(_)
WeightSum(S) ==
    IF S = {} THEN 0
    ELSE LET i == CHOOSE x \in S : TRUE
         IN  ClaimedWeight(report.findings[i].severity) + WeightSum(S \ {i})

\* C10: in both engines the returned risk_score is the sum, over the
\* findings returned with it, of the weights low=1, medium=2, high=3,
\* critical=4.
C10_ScoreIsWeightSum ==
    rpc \in {"analyzed", "policy_done"} =>
        /\ \A i \in 1..Len(report.findings) :
             report.findings[i].severity \in {"low", "medium", "high", "critical"}
        /\ report.risk_score = WeightSum(1..Len(report.findings))

\* a flow table on which two detectors fire with different severities
C10_Witness ==
    /\ rpc = "analyzed"
    /\ Len(report.findings) = 3
    /\ \E i, j \in 1..Len(report.findings) :
         /\ report.findings[i].severity = "high"
         /\ report.findings[j].severity = "medium"
    /\ report.risk_score = 8

-----------------------------------------------------------------------------
(* Properties of the score -> level mappings *)

\* the order none < low < medium < high < critical
LevelRank(level) ==
    CASE level = "none" -> 0
      [] level = "low" -> 1
      [] level = "medium" -> 2
      [] level = "high" -> 3
      [] level = "critical" -> 4

\* C11: each engine's mapping from score to level is monotone: of two
\* scores a <= b the level of a is not above the level of b in the order
\* none < low < medium < high (< critical in CloudSentinel), and score 0
\* maps to "none".
C11_LevelMonotone ==
    spc \in {"pv_done", "cs_done"} =>
        /\ score_in[1] <= score_in[2]
             => LevelRank(level_out[1]) <= LevelRank(level_out[2])
        /\ \A i \in 1..2 : score_in[i] = 0 => level_out[i] = "none"
        /\ \A i \in 1..2 :
             level_out[i] \in
                (IF spc = "pv_done" THEN {"none", "low", "medium", "high"}
                 ELSE {"none", "low", "medium", "high", "critical"})

\* CloudSentinel scores on either side of its last breakpoint
C11_Witness ==
    /\ spc = "cs_done"
    /\ score_in = <<12, 13>>
    /\ level_out = <<"high", "critical">>

-----------------------------------------------------------------------------
(* Properties of the detectors under growth and missing columns *)

SeverityRank(severity) ==
    CASE severity = "low" -> 1
      [] severity = "medium" -> 2
      [] severity = "high" -> 3
      [] severity = "critical" -> 4

\* what the three detectors return on table t, in the engine's order
DetectorResults(t) ==
    <<rule_port_scan(t), rule_bruteforce_like(t), rule_dns_tunnel_like(t)>>

\* table u is table t with further rows after it, each with
\* packet_count >= 1 and total_bytes >= 0
Extends(t, u) ==
    /\ u.columns = t.columns
    /\ Len(u.rows) > Len(t.rows)
    /\ SubSeq(u.rows, 1, Len(t.rows)) = t.rows
    /\ \A i \in (Len(t.rows) + 1)..Len(u.rows) :
         u.rows[i].packet_count >= 1 /\ u.rows[i].total_bytes >= 0

\* C12: whenever rows are appended to the flow table, every detector that
\* emitted a finding on the table before still emits one on the table
\* after, of equal or higher severity.
C12_AppendKeepsFindings ==
    [][Extends(flows, flows') =>
          \A d \in 1..3 :
             LET before == DetectorResults(flows)[d]
                 after == DetectorResults(flows')[d]
             IN  before # <<>> =>
                    /\ after # <<>>
                    /\ SeverityRank(after[1].severity)
                         >= SeverityRank(before[1].severity)
      ]_vars

\* a table analyzed after a row was appended to it: the DNS finding that was
\* "medium" without the row is "high" with it, and the port-scan finding of
\* a source that gained a port is still there
C12_Witness ==
    /\ rpc = "analyzed"
    /\ n_appended >= 1
    /\ LET shorter == [flows EXCEPT !.rows = SubSeq(@, 1, Len(@) - 1)]
       IN  /\ rule_dns_tunnel_like(shorter) # <<>>
           /\ rule_dns_tunnel_like(shorter)[1].severity = "medium"
           /\ rule_port_scan(shorter) # <<>>
    /\ \E i \in FindingsOf("PV03_DNS_TUNNEL_LIKE") :
         report.findings[i].severity = "high"
    /\ FindingsOf("PV01_PORT_SCAN") # {}

\* the columns each detector lists as required
RequiredColumns(id) ==
    CASE id = "PV01_PORT_SCAN" ->
            {"src_ip", "dst_port", "packet_count", "duration"}
      [] id = "PV02_BRUTEFORCE_LIKE" -> {"dst_port", "packet_count"}
      [] id = "PV03_DNS_TUNNEL_LIKE" ->
            {"dst_port", "packet_count", "total_bytes"}

DetectorIds ==
    {"PV01_PORT_SCAN", "PV02_BRUTEFORCE_LIKE", "PV03_DNS_TUNNEL_LIKE"}

\* the condition under which a detector fires on a table that has its columns
ThresholdMet(id) ==
    CASE id = "PV01_PORT_SCAN" -> Offenders # {}
      [] id = "PV02_BRUTEFORCE_LIKE" ->
            \/ Cardinality(AdminIdx) >= 30
            \/ SumOver(AdminIdx, "packet_count") >= 1000
      [] id = "PV03_DNS_TUNNEL_LIKE" ->
            \/ SumOver(DnsIdx, "packet_count") >= 500
            \/ SumOver(DnsIdx, "total_bytes") >= 500000

\* C13: on a table with rows that lacks a column a detector requires, that
\* detector adds no finding; every detector whose columns are all there is
\* still evaluated (it fires iff its threshold is met); and the engine
\* returns its four keys, consistent with the findings it lists.
C13_MissingColumns ==
    (rpc = "analyzed" /\ Len(flows.rows) > 0) =>
        /\ \A id \in DetectorIds :
             IF RequiredColumns(id) \subseteq flows.columns
             THEN (FindingsOf(id) # {}) <=> ThresholdMet(id)
             ELSE FindingsOf(id) = {}
        /\ DOMAIN report =
             {"risk_level", "risk_score", "num_findings", "findings"}
        /\ report.num_findings = Len(report.findings)
        /\ report.risk_score = WeightSum(1..Len(report.findings))
        /\ report.risk_level \in {"none", "low", "medium", "high"}
        /\ (report.risk_level = "none") <=> (report.findings = <<>>)

\* a table without src_ip on which the port-scan detector stays silent
\* while the two detectors after it fire
C13_Witness ==
    /\ rpc = "analyzed"
    /\ "src_ip" \notin flows.columns
    /\ Len(flows.rows) > SCAN_PORT_THRESHOLD
    /\ FindingsOf("PV01_PORT_SCAN") = {}
    /\ FindingsOf("PV02_BRUTEFORCE_LIKE") # {}
    /\ FindingsOf("PV03_DNS_TUNNEL_LIKE") # {}
    /\ report.num_findings = 2

-----------------------------------------------------------------------------
(* Properties of analyze_pcap and of the aggregator as one call *)

\* no packet of pkts has an IP layer together with a TCP or UDP layer
NoneRecognized(pkts) ==
    \A j \in 1..Len(pkts) : ~(pkts[j].ip /\ pkts[j].l4 \in {"TCP", "UDP"})

\* C14: for a capture that is empty or holds no IP+TCP/UDP packet the
\* parser returns zero rows under all eleven flow columns, the rule engine
\* returns risk_score 0, risk_level "none" and no finding, and
\* build_features returns an empty table; the call runs to its end.
C14_EmptyCapture ==
    \A i \in Invocations :
        NoneRecognized(calls[i].packets) =>
            /\ calls[i].pc \in {"parsed", "ruled", "done"} =>
                 /\ calls[i].flows_df.rows = <<>>
                 /\ calls[i].flows_df.columns =
                      <<"src_ip", "dst_ip", "src_port", "dst_port", "protocol",
                        "packet_count", "total_bytes", "start_time",
                        "end_time", "duration", "avg_packet_size">>
            /\ calls[i].pc \in {"ruled", "done"} =>
                 /\ calls[i].rule_result.risk_score = 0
                 /\ calls[i].rule_result.risk_level = "none"
                 /\ calls[i].rule_result.num_findings = 0
                 /\ calls[i].rule_result.findings = <<>>
            /\ calls[i].pc = "done" =>
                 /\ calls[i].features_df.rows = <<>>
                 /\ FrameEmpty(calls[i].features_df)
                 /\ calls[i].report.num_flows = 0

\* one call finished on the empty capture, another on a capture of frames
\* without an IP layer
C14_Witness ==
    /\ calls["req1"].pc = "done" /\ calls["req1"].packets = <<>>
    /\ calls["req2"].pc = "done" /\ Len(calls["req2"].packets) = 2
    /\ NoneRecognized(calls["req2"].packets)
    /\ Len(calls["req2"].flows_df.columns) = 11
    /\ calls["req2"].report.rule_based.risk_level = "none"

\* C15: however the steps of the invocations interleave, each invocation's
\* dicts, flow table, rule result, feature table and report are at every
\* point what the same call computes on its own packets with nothing else
\* running.
C15_CallsAreIsolated ==
    \A i \in Invocations :
        LET c == calls[i]
            alone == parse_pcap_to_flows(c.packets)
        IN  /\ c.pc = "loop" =>
                 c.acc = RunLoop(FreshAccumulators,
                                 SubSeq(c.packets, 1, c.idx - 1), 1)
            /\ c.pc \in {"parsed", "ruled", "done"} => c.flows_df = alone
            /\ c.pc \in {"ruled", "done"} =>
                 c.rule_result = analyze_flows_with_rules(RuleView(alone))
            /\ c.pc = "done" =>
                 /\ c.features_df = build_features(alone)
                 /\ c.report = analyze_pcap(c.packets)

\* two calls at work on the same flow key: one has returned a "medium" DNS
\* finding while the other, half way through its loop, is on its way to a
\* "high" one
C15_Witness ==
    /\ calls["req1"].pc = "loop" /\ calls["req1"].idx = 2
    /\ Len(calls["req1"].packets) = 2
    /\ Len(calls["req2"].packets) = 1
    /\ calls["req1"].packets[1] = calls["req2"].packets[1]
    /\ calls["req1"].packets[2] = calls["req1"].packets[1]
    /\ calls["req2"].pc = "done"
    /\ calls["req2"].report.rule_based.num_findings = 1
    /\ calls["req2"].report.rule_based.findings[1].severity = "medium"
    /\ analyze_pcap(calls["req1"].packets).rule_based.findings[1].severity
         = "high"

\* the rearrangements of a packet list
PermsOf(pkts) ==
    { [i \in 1..Len(pkts) |-> pkts[f[i]]] : f \in Permutations(1..Len(pkts)) }

\* key, packet_count and total_bytes of every row of a frame
CountersOf(df) ==
    { <<RowKey(df.rows[r]), df.rows[r].packet_count, df.rows[r].total_bytes>> :
        r \in 1..Len(df.rows) }

\* C16: the aggregator run on any rearrangement of the capture ends with
\* the same flow keys and, for every key, the same packet_count and
\* total_bytes as the run on the capture itself.
C16_PermutationInvariant ==
    pc = "done" =>
        \A q \in PermsOf(packets) :
            LET other == RunLoop(FreshAccumulators, q, 1)
            IN  /\ DOMAIN other.packet_counts = DOMAIN packet_counts
                /\ \A k \in DOMAIN packet_counts :
                     /\ other.packet_counts[k] = packet_counts[k]
                     /\ other.total_bytes[k] = total_bytes[k]
                /\ CountersOf(FrameOf(other)) = CountersOf(flows_df)

\* a capture of two interleaved flows with a rearrangement that changes a
\* row's end_time and the order of the rows, but no counter
C16_Witness ==
    /\ pc = "done"
    /\ Len(flows_df.rows) = 2
    /\ \E r \in RowIdx : flows_df.rows[r].packet_count = 2
    /\ \E q \in PermsOf(packets) :
         LET other == parse_pcap_to_flows(q)
         IN  /\ RowKey(other.rows[1]) # RowKey(flows_df.rows[1])
             /\ \E r, o \in 1..2 :
                  /\ RowKey(other.rows[o]) = RowKey(flows_df.rows[r])
                  /\ other.rows[o].end_time # flows_df.rows[r].end_time
                  /\ other.rows[o].total_bytes = flows_df.rows[r].total_bytes

\* C17: a step over a packet without an IP layer, or with an IP layer but
\* neither TCP nor UDP, leaves the four dicts as they are and moves the
\* loop to the next packet; a step over a recognized packet counts it,
\* whatever was skipped before it.
C17_SkipLeavesAccumulators ==
    [][/\ (InLoop /\ ~Recognized(idx)) =>
            /\ UNCHANGED <<packet_counts, total_bytes, first_ts, last_ts>>
            /\ idx' = idx + 1
            /\ pc' = "loop"
       /\ (InLoop /\ Recognized(idx)) =>
            /\ KeyAt(idx) \in DOMAIN packet_counts'
            /\ packet_counts'[KeyAt(idx)] =
                 Cardinality(IdxOfKey(KeyAt(idx), idx))
            /\ idx' = idx + 1
      ]_vars

\* a frame without IP and an IP packet without TCP/UDP were stepped over,
\* and the recognized packet after them was counted
C17_Witness ==
    /\ pc = "loop"
    /\ idx = 4
    /\ ~packets[1].ip
    /\ packets[2].ip /\ packets[2].l4 = "NONE"
    /\ Recognized(3)
    /\ DOMAIN packet_counts = {KeyAt(3)}
    /\ packet_counts[KeyAt(3)] = 1
    /\ last_ts[KeyAt(3)] = packets[3].time

-----------------------------------------------------------------------------
(* Properties of build_features *)

FeatIdx == 1..Len(feat_out.rows)

\* the nineteen labels of a feature table, in ascending order
ExpectedFeatureColumns ==
    <<"avg_packet_size", "bytes_per_sec", "dst_high_port", "dst_is_dns",
      "dst_is_rdp", "dst_is_smb", "dst_is_ssh", "dst_is_web", "dst_port",
      "duration", "is_long_flow", "is_short_flow", "is_tcp", "is_udp",
      "packet_count", "pkts_per_sec", "src_high_port", "src_port",
      "total_bytes">>

\* C18: a call leaves the caller's flow table as it was; the returned
\* columns are the feature labels in ascending order whatever the order of
\* the input's columns, each row holding a value for exactly these; and a
\* second call on the same table returns the same table.
C18_DeterministicLayout ==
    feat_calls >= 1 =>
        /\ feat_in = feat_orig
        /\ feat_out.columns =
             (IF feat_orig.rows = <<>> THEN <<>> ELSE ExpectedFeatureColumns)
        /\ Len(feat_out.rows) = Len(feat_orig.rows)
        /\ \A i \in FeatIdx :
             DOMAIN feat_out.rows[i] = SeqRange(ExpectedFeatureColumns)
        /\ feat_calls >= 2 => feat_out = feat_prev

\* two calls on a two-row table whose columns came in reverse order
C18_Witness ==
    /\ feat_calls = 2
    /\ feat_orig.columns[1] = "avg_packet_size"
    /\ feat_orig.columns[11] = "src_ip"
    /\ Len(feat_orig.rows) = 2
    /\ feat_out.columns[1] = "avg_packet_size"
    /\ feat_out.columns[19] = "total_bytes"
    /\ feat_out = feat_prev

\* C19 (as stated): for every row, pkts_per_sec = packet_count /
\* max(duration, eps) and bytes_per_sec = total_bytes / max(duration, eps).
C19_RatesUseMaxOfEps ==
    feat_calls >= 1 =>
        \A i \in FeatIdx :
            LET row == feat_orig.rows[i]
                denominator == Max2(row.duration, EPS)
            IN  /\ feat_out.rows[i].pkts_per_sec
                     = TrueDiv(row.packet_count, denominator)
                /\ feat_out.rows[i].bytes_per_sec
                     = TrueDiv(row.total_bytes, denominator)

\* C19 (amended): for every row with duration >= 0 the denominator of both
\* rates is eps when duration is exactly 0 and the duration itself
\* otherwise, also when 0 < duration < eps; it is never 0.
C19_RatesReplaceZero ==
    feat_calls >= 1 =>
        \A i \in FeatIdx :
            LET row == feat_orig.rows[i]
                denominator == IF row.duration = 0 THEN EPS ELSE row.duration
            IN  /\ row.duration >= 0
                /\ denominator > 0
                /\ feat_out.rows[i].pkts_per_sec
                     = TrueDiv(row.packet_count, denominator)
                /\ feat_out.rows[i].bytes_per_sec
                     = TrueDiv(row.total_bytes, denominator)

\* a table with a row of duration 0 and a row of duration below eps, whose
\* rate is the packet count over that duration
C19_Witness ==
    /\ feat_calls >= 1
    /\ \E i, j \in FeatIdx :
         /\ feat_orig.rows[i].duration = 0
         /\ feat_out.rows[i].pkts_per_sec
              = TrueDiv(feat_orig.rows[i].packet_count, EPS)
         /\ feat_orig.rows[j].duration > 0
         /\ feat_orig.rows[j].duration < EPS
         /\ feat_out.rows[j].pkts_per_sec
              = TrueDiv(feat_orig.rows[j].packet_count,
                        feat_orig.rows[j].duration)

\* C20: in every returned row the four flags are 0 or 1; is_tcp and is_udp
\* are never both 1, and both 0 when the protocol tag is neither "TCP" nor
\* "UDP"; is_short_flow and is_long_flow are never both 1, and both 0
\* exactly when 1.0 <= duration <= 60.0.
C20_FlagPairsExclusive ==
    feat_calls >= 1 =>
        \A i \in FeatIdx :
            LET out == feat_out.rows[i]
                row == feat_orig.rows[i]
            IN  /\ {out.is_tcp, out.is_udp, out.is_short_flow,
                    out.is_long_flow} \subseteq {0, 1}
                /\ ~(out.is_tcp = 1 /\ out.is_udp = 1)
                /\ row.protocol \notin {"TCP", "UDP"}
                     => (out.is_tcp = 0 /\ out.is_udp = 0)
                /\ ~(out.is_short_flow = 1 /\ out.is_long_flow = 1)
                /\ (out.is_short_flow = 0 /\ out.is_long_flow = 0)
                     <=> (/\ row.duration >= SHORT_FLOW_LIMIT
                          /\ row.duration <= LONG_FLOW_LIMIT)

\* a row whose tag is neither TCP nor UDP beside a row of duration 60.0
C20_Witness ==
    /\ feat_calls >= 1
    /\ \E i, j \in FeatIdx :
         /\ feat_orig.rows[i].protocol = "ICMP"
         /\ feat_out.rows[i].is_tcp = 0 /\ feat_out.rows[i].is_udp = 0
         /\ feat_out.rows[i].is_short_flow = 1
         /\ feat_orig.rows[j].duration = LONG_FLOW_LIMIT
         /\ feat_out.rows[j].is_short_flow = 0
         /\ feat_out.rows[j].is_long_flow = 0
         /\ feat_out.rows[j].is_tcp = 1

-----------------------------------------------------------------------------
(* Properties of the rule engine on scan-like traffic *)

GatedPorts == {22, 3389, 445, 139, 53}

\* the table is the scenario: 60 rows of one source, row i to port
\* 6000 + i - 1, two packets each
IsScanScenario ==
    /\ Len(flows.rows) = 60
    /\ \A i \in FlowIdx :
         /\ flows.rows[i].src_ip = flows.rows[1].src_ip
         /\ flows.rows[i].dst_port = 6000 + i - 1
         /\ flows.rows[i].packet_count = 2

\* C21: on a flow table in which no flow has dst_port in {22, 3389, 445,
\* 139, 53} the rule engine emits neither a bruteforce nor a DNS-tunnel
\* finding; the 60-flow scan scenario yields exactly one finding, the
\* port-scan finding, with severity "high" and flows_affected = 60.
C21_NoGatedPortNoFinding ==
    rpc = "analyzed" =>
        /\ (\A i \in FlowIdx : flows.rows[i].dst_port \notin GatedPorts) =>
              /\ FindingsOf("PV02_BRUTEFORCE_LIKE") = {}
              /\ FindingsOf("PV03_DNS_TUNNEL_LIKE") = {}
        /\ IsScanScenario =>
              /\ Len(report.findings) = 1
              /\ report.findings[1].rule_id = "PV01_PORT_SCAN"
              /\ report.findings[1].severity = "high"
              /\ report.findings[1].flows_affected = 60
              /\ report.num_findings = 1

\* the scenario has been analysed and gave its one finding
C21_Witness ==
    /\ rpc = "analyzed"
    /\ IsScanScenario
    /\ report.num_findings = 1
    /\ report.findings[1].flows_affected = 60

-----------------------------------------------------------------------------
(* Properties of the PacketVision findings list and its level *)

RuleOrder == <<"PV01_PORT_SCAN", "PV02_BRUTEFORCE_LIKE", "PV03_DNS_TUNNEL_LIKE">>

RuleRank(id) == CHOOSE k \in 1..Len(RuleOrder) : RuleOrder[k] = id

\* C29: the findings list of analyze_flows_with_rules holds at most one
\* finding per detector, in the order port-scan, bruteforce, DNS-tunnel; the
\* risk level follows from the number of findings alone ("none" for zero,
\* "low" for one, "medium" for two, "high" for three and for nothing less);
\* risk_score never exceeds 9.
C29_LevelCountsDetectors ==
    rpc = "analyzed" =>
        LET n == Len(report.findings)
        IN  /\ \A i \in 1..n :
                 report.findings[i].rule_id \in {RuleOrder[k] : k \in 1..3}
            /\ \A i, j \in 1..n :
                 i < j => RuleRank(report.findings[i].rule_id)
                             < RuleRank(report.findings[j].rule_id)
            /\ n = 0 => report.risk_level = "none"
            /\ n = 1 => report.risk_level = "low"
            /\ n = 2 => report.risk_level = "medium"
            /\ n = 3 => report.risk_level = "high"
            /\ report.risk_level = "high" => n = 3
            /\ report.risk_score <= 9
            /\ report.num_findings = n

\* all three detectors fired with the DNS finding at "medium" (score 8,
\* the lowest a full list can score)
C29_Witness ==
    /\ rpc = "analyzed"
    /\ Len(report.findings) = 3
    /\ report.findings[3].severity = "medium"
    /\ report.risk_score = 8
    /\ report.risk_level = "high"

-----------------------------------------------------------------------------
(* Properties of the scoring steps *)

MlRows == 1..Len(X_aligned.data)

\* verdict i of predict_flows is the classifier's output for row i
VerdictIsOfRow(i) ==
    /\ results[i].predicted_label = y_pred[i]
    /\ DOMAIN results[i].probabilities = SeqRange(model.classes_)
    /\ \A k \in 1..Len(model.classes_) :
         results[i].probabilities[model.classes_[k]] = proba[i][k]

MaxOfMapping(f) ==
    CHOOSE x \in {f[k] : k \in DOMAIN f} : \A k \in DOMAIN f : f[k] <= x

LabelFields == {"predicted_label", "class_label", "prediction"}

MappingFields == {"probabilities", "probs"}

Scored == mpc \in {"pv_done", "rr_done", "sf_done"}

-----------------------------------------------------------------------------
(* Properties of RedRiver's label encoding *)

TrainLabels == SeqRange(label_column)

Trained == rrpc \in {"encoded", "saved", "loaded"} /\ label_column # <<>>

\* C30: encode_labels gives the distinct labels of the training table, in
\* sorted order, the integers 0..N-1; label_to_int and int_to_label are
\* inverses of each other; and after save_artifacts has written the decoder
\* with string keys and the API has loaded it, decode_label(label_to_int[L])
\* is L for every training label L.
C30_LabelRoundTrip ==
    Trained =>
        LET N == Cardinality(TrainLabels)
        IN  /\ DOMAIN label_to_int = TrainLabels
            /\ {label_to_int[L] : L \in TrainLabels} = 0..(N - 1)
            /\ \A a, b \in TrainLabels :
                 RrLabelRank(a) < RrLabelRank(b) => label_to_int[a] < label_to_int[b]
            /\ DOMAIN int_to_label = 0..(N - 1)
            /\ \A L \in TrainLabels : int_to_label[label_to_int[L]] = L
            /\ \A i \in 0..(N - 1) : label_to_int[int_to_label[i]] = i
            /\ \A r \in 1..Len(label_column) :
                 label_encoded[r] = label_to_int[label_column[r]]
            /\ rrpc \in {"saved", "loaded"} =>
                 /\ metadata_file.format = "dict"
                 /\ DOMAIN metadata_file.label_decoder = {IntStr(i) : i \in 0..(N - 1)}
            /\ rrpc = "loaded" =>
                 \A L \in TrainLabels :
                     decode_label(LABEL_DECODER, label_to_int[L]) = L

\* a table whose labels appear unsorted and repeated has been encoded,
\* saved and loaded, and index 1 decodes to the later label
C30_Witness ==
    /\ rrpc = "loaded"
    /\ label_column = <<"port_scan", "benign", "port_scan">>
    /\ label_to_int["port_scan"] = 1
    /\ decode_label(LABEL_DECODER, 1) = "port_scan"

-----------------------------------------------------------------------------
(* Properties of the /analyze-pcap endpoint *)

\* the request reached the classifier and the classifier raised: the
\* column list on disk is not as wide as the table the forest was fitted on
ClassifierRaised ==
    /\ save_ok
    /\ upload.readable
    /\ artifacts.available
    /\ NumFlows(upload) >= 1
    /\ Len(artifacts.feature_columns) # artifacts.model.n_features_in_

\* C24: when the classifier raises while scoring the aligned table,
\* analyze_pcap returns no report and the endpoint answers with status 500:
\* never with a report, so never with an empty or defaulted ml_based section
\* nor with anything that reads as risk_level "none"; and a report that is
\* returned with the model on disk has scored every flow.
C24_ClassifierErrorIs500 ==
    epc = "responded" =>
        /\ ClassifierRaised =>
              /\ response.status = 500
              /\ DOMAIN response = {"status", "detail"}
        /\ (response.status = 200 /\ artifacts.available) =>
              /\ response.body.ml_based.summary.num_flows_scored
                    = NumFlows(upload)
              /\ Len(response.body.ml_based.per_flow) = NumFlows(upload)

\* a capture whose one web flow trips no rule met a classifier fitted on a
\* table of another width, and the answer is the error
C24_Witness ==
    /\ epc = "responded"
    /\ ClassifierRaised
    /\ NumFlows(upload) = 1
    /\ analyze_pcap(upload.packets).rule_based.risk_level = "none"
    /\ response.status = 500


-----------------------------------------------------------------------------
(* Properties of ZeroTrace's feature extraction *)

ClassIndices == 0..(Len(MODEL_CLASSES) - 1)

ValuesOf(s) == {s[i] : i \in DOMAIN s}

\* a raw label that names no class: an unknown string, an integer that is
\* no class index, a float that is no whole class index
Unrecognized(dtype, v) ==
    CASE dtype = "object"  -> v \notin ValuesOf(MODEL_CLASSES)
      [] dtype = "int64"   -> v \notin ClassIndices
      [] dtype = "float64" -> v % 2 # 0 \/ (v \div 2) \notin ClassIndices

UnrecognizedRows(df) ==
    {r \in 1..Len(df.label) : Unrecognized(df.dtype, df.label[r])}

Extracted == zpc = "extracted" /\ snapshot_df.has_features

\* C25: extract_features raises, listing the offending values, for every
\* snapshot with an unrecognized raw label, whatever the dtype of the label
\* column; a table it returns holds class indices only.
C25_UnrecognizedLabelRaises ==
    Extracted =>
        /\ UnrecognizedRows(snapshot_df) # {} =>
               /\ extract_result.raised
               /\ \A r \in UnrecognizedRows(snapshot_df) :
                      snapshot_df.label[r] \in ValuesOf(extract_result.values)
        /\ ~extract_result.raised =>
               \A r \in 1..Len(extract_result.value) :
                   extract_result.value[r] \in ClassIndices

\* an integer label column holding 7 came back as a feature table
C25_Witness ==
    /\ Extracted
    /\ snapshot_df.dtype = "int64"
    /\ snapshot_df.label = <<0, 7>>
    /\ extract_result = Returned(<<0, 7>>)


-----------------------------------------------------------------------------
(* Properties of ZeroTrace's model cache *)

\* a step that changes the cache is a load that succeeded: the file was
\* valid and read, and the object read is the one cached and returned
CacheWrittenOnSuccess ==
    _MODEL' # _MODEL =>
        /\ model_file = "valid"
        /\ disk_reads' = disk_reads + 1
        /\ _MODEL' # NoObject
        /\ _MODEL' \in obtained'

CacheNeverReset == _MODEL # NoObject => _MODEL' # NoObject

\* C26: over any calls of load_model, overlapping ones included, the model
\* file is read at most once and every call obtains the same object; the
\* cache is written only by a successful load and never reset.
C26_ModelReadOnce ==
    /\ [](disk_reads <= 1 /\ Cardinality(obtained) <= 1)
    /\ [][CacheWrittenOnSuccess /\ CacheNeverReset]_vars

\* two overlapping calls each read the valid file and got their own object
C26_Witness ==
    /\ model_file = "valid"
    /\ disk_reads = 2
    /\ obtained = {1, 2}
    /\ \A c \in Callers : load_calls[c] = 1 /\ lpc[c] = "idle"


-----------------------------------------------------------------------------
(* Properties of ZeroTrace's /predict request model *)

FeatureNames == {FEATURE_COLUMNS[i] : i \in 1..Len(FEATURE_COLUMNS)}

Predicted == zpc = "predicted" /\ ~prediction.raised

\* C27: every name in FEATURE_COLUMNS is a field of ProcessSample, so for
\* every request build_feature_frame takes each feature's value from the
\* request and fills no feature column with the default 0.
C27_FieldsMatchFeatures ==
    Predicted =>
        /\ FeatureNames \subseteq DOMAIN request_sample
        /\ filled_cols = {}
        /\ \A i \in 1..Len(FEATURE_COLUMNS) :
              /\ FEATURE_COLUMNS[i] \in DOMAIN request_sample
              /\ X_frame.row[i] = request_sample[FEATURE_COLUMNS[i]]

\* a request with cpu_usage_pct = 5 was scored with cpu_usage filled as 0
C27_Witness ==
    /\ Predicted
    /\ request_sample["cpu_usage_pct"] = 5
    /\ filled_cols = {"cpu_usage"}
    /\ X_frame.row[11] = 0


-----------------------------------------------------------------------------
(* Properties of the aggregator's accumulators *)

AccumulatorKeys == DOMAIN packet_counts

\* the keys row construction iterates over, packet_counts.items()
IteratedKeys == {flow_keys[i] : i \in 1..Len(flow_keys)}

\* C28: after each iteration of the loop the four accumulators have the
\* same key set and every stored count is >= 1; so row construction looks
\* up no missing key and divides by no zero count, and every emitted flow
\* has at least one packet.
C28_AccumulatorsAgree ==
    /\ DOMAIN total_bytes = AccumulatorKeys
    /\ DOMAIN first_ts = AccumulatorKeys
    /\ DOMAIN last_ts = AccumulatorKeys
    /\ IteratedKeys = AccumulatorKeys
    /\ \A key \in AccumulatorKeys : packet_counts[key] >= 1
    /\ pc = "done" =>
          /\ Len(flows_df.rows) = Len(flow_keys)
          /\ \A i \in 1..Len(flows_df.rows) :
                /\ flows_df.rows[i].packet_count >= 1
                /\ flows_df.rows[i].avg_packet_size =
                      TrueDiv(flows_df.rows[i].total_bytes,
                              flows_df.rows[i].packet_count)

\* a capture with a skipped packet gave one flow of two packets
C28_Witness ==
    /\ pc = "done"
    /\ Len(flows_df.rows) = 1
    /\ \E i \in 1..Len(packets) : ProtocolOf(packets[i]) = "NONE"
    /\ flows_df.rows[1].packet_count = 2
    /\ AccumulatorKeys = IteratedKeys

=============================================================================
